---- MODULE Spec2Model ----
(***************************************************************************)
(* A model of the GBQR forecasting engine of the MetroCast Hub repository: *)
(* src/src/mchub_gbqr/{data_loader,transforms,model,config}.py.            *)
(*                                                                         *)
(* Numbers of the pipeline are exact rationals [n, d] with d > 0, in       *)
(* lowest terms; the float NaN is the record with d = 0 and behaves as in  *)
(* IEEE 754 (every comparison with it is false, every operation on it      *)
(* gives NaN).  Dates are proleptic Gregorian ordinals, as datetime.date   *)
(* counts them.                                                            *)
(***************************************************************************)
EXTENDS Integers, Sequences, FiniteSets, TLC

(***************************************************************************)
(* Helpers on sequences.                                                   *)
(***************************************************************************)
Range(s) == {s[i] : i \in DOMAIN s}

\* the subsequence of s at the indices in keep, in the order of s
Pick(s, keep) ==
    LET tagged == [i \in DOMAIN s |-> <<i, s[i]>>]
        kept   == SelectSeq(tagged, LAMBDA p : p[1] \in keep)
    IN  [k \in DOMAIN kept |-> kept[k][2]]

\* DataFrame.drop_duplicates(keep="first"): keys[i] is the subset of row i the
\* duplicates are told by; a row whose key an earlier row has goes
DropDuplicates(df, keys) ==
    Pick(df, {i \in DOMAIN df : ~\E j \in 1..(i - 1) : keys[j] = keys[i]})

RECURSIVE Flatten(_)
Flatten(ss) == IF ss = <<>> THEN <<>> ELSE Head(ss) \o Flatten(Tail(ss))

RECURSIVE Join(_)
\* "".join(chars)
Join(cs) == IF cs = <<>> THEN "" ELSE Head(cs) \o Join(Tail(cs))

(***************************************************************************)
(* Floats, as exact rationals with NaN.                                    *)
(***************************************************************************)
Abs(i) == IF i < 0 THEN -i ELSE i

RECURSIVE GCD(_, _)
GCD(a, b) == IF b = 0 THEN a ELSE GCD(b, a % b)

NaN == [n |-> 0, d |-> 0]
IsNaN(x) == x.d = 0

Rat(n, d) ==
    IF d = 0 THEN NaN
    ELSE LET g == GCD(Abs(n), Abs(d))
             s == IF d < 0 THEN -1 ELSE 1
         IN  [n |-> s * (n \div g), d |-> s * (d \div g)]

Zero == Rat(0, 1)
LCM(a, b) == (a \div GCD(a, b)) * b

RAdd(x, y) ==
    IF IsNaN(x) \/ IsNaN(y) THEN NaN
    ELSE LET l == LCM(x.d, y.d)
         IN  Rat(x.n * (l \div x.d) + y.n * (l \div y.d), l)
RNeg(x) == IF IsNaN(x) THEN NaN ELSE [n |-> -x.n, d |-> x.d]
RSub(x, y) == RAdd(x, RNeg(y))
RMul(x, y) ==
    IF IsNaN(x) \/ IsNaN(y) THEN NaN
    ELSE LET g1 == GCD(Abs(x.n), y.d)
             g2 == GCD(Abs(y.n), x.d)
         IN  Rat((x.n \div g1) * (y.n \div g2), (x.d \div g2) * (y.d \div g1))
\* x / y; the pipeline never divides by zero (scale_factor + 0.01 > 0)
RDiv(x, y) ==
    IF IsNaN(x) \/ IsNaN(y) \/ y.n = 0 THEN NaN
    ELSE RMul(x, Rat(y.d, y.n))
\* IEEE comparisons: false as soon as one side is NaN
RLt(x, y) ==
    /\ ~IsNaN(x)
    /\ ~IsNaN(y)
    /\ LET l == LCM(x.d, y.d) IN x.n * (l \div x.d) < y.n * (l \div y.d)
RLe(x, y) == ~IsNaN(x) /\ ~IsNaN(y) /\ ~RLt(y, x)
\* np.maximum(x, y): NaN if either is NaN
RMax(x, y) == IF IsNaN(x) \/ IsNaN(y) THEN NaN ELSE IF RLt(x, y) THEN y ELSE x
\* x ** k for k in {1, 4}
RPow(x, k) ==
    IF IsNaN(x) THEN NaN
    ELSE IF k = 1 THEN x
    ELSE [n |-> x.n * x.n * x.n * x.n, d |-> x.d * x.d * x.d * x.d]

(***************************************************************************)
(* datetime.date and pymmwr.date_to_epiweek.                               *)
(***************************************************************************)
IsLeap(y) == (y % 4 = 0) /\ ((y % 100 # 0) \/ (y % 400 = 0))
\* date(y, 1, 1).toordinal()
Jan1(y) == LET p == y - 1
           IN  p * 365 + (p \div 4) - (p \div 100) + (p \div 400) + 1
RECURSIVE YearFrom(_, _)
YearFrom(date, y) == IF date >= Jan1(y + 1) THEN YearFrom(date, y + 1) ELSE y
\* date.year
YearOf(date) == YearFrom(date, (date \div 366) + 1)
DaysBeforeMonth(y, m) ==
    <<0, 31, 59, 90, 120, 151, 181, 212, 243, 273, 304, 334>>[m]
    + (IF m > 2 /\ IsLeap(y) THEN 1 ELSE 0)
\* date(y, m, d).toordinal()
Ordinal(y, m, d) == Jan1(y) + DaysBeforeMonth(y, m) + d - 1
\* date.isoweekday(): Monday 1 .. Sunday 7
IsoWeekday(date) == ((date - 1) % 7) + 1
\* pymmwr._start_date_of_year: the Sunday that starts MMWR week 1 of the year
StartDateOfYear(y) ==
    LET wd == IsoWeekday(Jan1(y))
    IN  Jan1(y) + (IF wd > 3 THEN 7 ELSE 0) - wd
\* pymmwr.date_to_epiweek(date): [year, week]
date_to_epiweek(date) ==
    LET y     == YearOf(date)
        start == IF StartDateOfYear(y) > date THEN StartDateOfYear(y - 1)
                 ELSE IF date >= StartDateOfYear(y + 1) THEN StartDateOfYear(y + 1)
                 ELSE StartDateOfYear(y)
    IN  [year |-> YearOf(start + 7), week |-> ((date - start) \div 7) + 1]

(***************************************************************************)
(* str(int) and string slicing.                                            *)
(***************************************************************************)
DigitChar(k) == <<"0", "1", "2", "3", "4", "5", "6", "7", "8", "9">>[k + 1]
RECURSIVE StrChars(_)
\* the characters of str(n), n >= 0
StrChars(n) == IF n < 10 THEN <<DigitChar(n)>>
               ELSE StrChars(n \div 10) \o <<DigitChar(n % 10)>>
\* s[k:] on a sequence of characters
SliceFrom(cs, k) == IF k >= Len(cs) THEN <<>> ELSE SubSeq(cs, k + 1, Len(cs))

(***************************************************************************)
(* data_loader._date_to_season and _date_to_season_week.                   *)
(***************************************************************************)
SeasonStartWeek == 40

date_to_season_offbyone(date) ==
    LET ew == date_to_epiweek(date)
    IN  IF ew.week > SeasonStartWeek
        THEN Join(StrChars(ew.year)) \o "/" \o Join(SliceFrom(StrChars(ew.year + 1), 2))
        ELSE Join(StrChars(ew.year - 1)) \o "/" \o Join(SliceFrom(StrChars(ew.year), 2))

date_to_season(date) ==
    LET ew == date_to_epiweek(date)
    IN  IF ew.week >= SeasonStartWeek
        THEN Join(StrChars(ew.year)) \o "/" \o Join(SliceFrom(StrChars(ew.year + 1), 2))
        ELSE Join(StrChars(ew.year - 1)) \o "/" \o Join(SliceFrom(StrChars(ew.year), 2))

\* a numbering that lets weeks 1..39 follow a 53rd week
date_to_season_week_after53(date) ==
    LET ew == date_to_epiweek(date)
    IN  IF ew.week >= SeasonStartWeek THEN ew.week - 39 ELSE ew.week + 14

date_to_season_week(date) ==
    LET ew == date_to_epiweek(date)
    IN  IF ew.week >= SeasonStartWeek THEN ew.week - 39 ELSE ew.week + 13

(***************************************************************************)
(* data_loader: the harmonized location key each source adapter assigns.   *)
(***************************************************************************)
\* load_mchub_data keeps the hub's location slug as it is
mchub_location_key(location) == location
\* load_supplementary_ilinet
ilinet_location_key(agg_level, location) == "ilinet_" \o location
\* load_supplementary_flusurvnet
flusurv_location_key(agg_level, location) == "flusurv_" \o location
\* load_supplementary_nhsn
nhsn_location_key(agg_level, location) == "nhsn_" \o location
\* load_supplementary_nssp
nssp_location_key(agg_level, location) == "nssp_" \o agg_level \o "_" \o location

\* the key of a raw (source, location code, aggregation level) triple
HarmonizedKey(t) ==
    CASE t.source = "mchub"      -> mchub_location_key(t.location)
      [] t.source = "ilinet"     -> ilinet_location_key(t.agg_level, t.location)
      [] t.source = "flusurvnet" -> flusurv_location_key(t.agg_level, t.location)
      [] t.source = "nhsn"       -> nhsn_location_key(t.agg_level, t.location)
      [] t.source = "nssp"       -> nssp_location_key(t.agg_level, t.location)

(***************************************************************************)
(* data_loader._get_commit_at_date.  An instant is a number of seconds     *)
(* since 1970-01-01T00:00:00Z; a commit is known by the instant it was     *)
(* made at.                                                                *)
(***************************************************************************)
Instant(date, h, m, sec) == (date - Ordinal(1970, 1, 1)) * 86400 + h * 3600 + m * 60 + sec

\* lines 59-69: until={next_day}T04:59:59Z
until(as_of_date) == Instant(as_of_date + 1, 4, 59, 59)

\* GET /repos/{repo}/commits?path=..&until=..&per_page=1 with -q .[0].sha:
\* the latest of the commits made at or before until, <<>> when there is none
LatestCommitUntil(commits, t) ==
    LET found == {c \in commits : c <= t}
    IN  IF found = {} THEN <<>> ELSE <<CHOOSE c \in found : \A e \in found : e <= c>>

(***************************************************************************)
(* data_loader: the loaders.  A data frame is a sequence of rows.          *)
(***************************************************************************)
\* the hub's auxiliary-data/locations.csv (load_location_crosswalk)
HubSlugs == {"boston", "nyc"}
LocationCrosswalk ==
    <<[location |-> "boston", location_type |-> "hsa_nci_id",
       original_location_code |-> "357", population |-> 4900000],
      [location |-> "nyc", location_type |-> "hsa_nci_id",
       original_location_code |-> "535", population |-> 8300000]>>

\* get_mchub_locations
get_mchub_locations == [i \in DOMAIN LocationCrosswalk |-> LocationCrosswalk[i].location]

\* the geo_type load_mchub_data merges in: "NaN" for a location the crosswalk
\* does not have
GeoTypeOf(location) ==
    LET m == SelectSeq(LocationCrosswalk, LAMBDA c : c.location = location)
    IN  IF m = <<>> THEN "NaN"
        ELSE IF m[1].original_location_code = "All" THEN "state"
        ELSE IF m[1].location_type = "hsa_nci_id" THEN "hsa"
        ELSE IF m[1].location_type = "nc_flu_region_id" THEN "nc_region"
        ELSE "NaN"

\* subset=["location", "wk_end_date", "target"]
DedupSubset(r) == <<r.location, r.wk_end_date, r.target>>

\* load_mchub_data on the raw rows [location, target_end_date, observation, target]
load_mchub_data(raw_rows) ==
    LET df == [i \in DOMAIN raw_rows |->
                 [location    |-> raw_rows[i].location,
                  source      |-> "mchub",
                  geo_type    |-> GeoTypeOf(raw_rows[i].location),
                  wk_end_date |-> raw_rows[i].target_end_date,
                  season      |-> date_to_season(raw_rows[i].target_end_date),
                  season_week |-> date_to_season_week(raw_rows[i].target_end_date),
                  inc         |-> raw_rows[i].observation,
                  target      |-> raw_rows[i].target]]
    IN  DropDuplicates(df, [i \in DOMAIN df |-> DedupSubset(df[i])])

\* a row of iddata's loaders, in the common schema, under the adapter's key
SupRow(r, source, key) ==
    [location    |-> key,
     source      |-> source,
     geo_type    |-> r.agg_level,
     wk_end_date |-> r.wk_end_date,
     season      |-> date_to_season(r.wk_end_date),
     season_week |-> date_to_season_week(r.wk_end_date),
     inc         |-> r.inc]

IlinetDropLocations == {"Virgin Islands", "Puerto Rico", "District of Columbia"}

\* load_supplementary_ilinet on what DiseaseDataLoader.load_ilinet returned
load_supplementary_ilinet(rows) ==
    LET kept == SelectSeq(rows, LAMBDA r : r.location \notin IlinetDropLocations)
    IN  [i \in DOMAIN kept |->
            SupRow(kept[i], "ilinet", ilinet_location_key(kept[i].agg_level, kept[i].location))]

\* load_supplementary_flusurvnet
load_supplementary_flusurvnet(rows) ==
    [i \in DOMAIN rows |->
        SupRow(rows[i], "flusurvnet", flusurv_location_key(rows[i].agg_level, rows[i].location))]

\* load_supplementary_nhsn
load_supplementary_nhsn(rows) ==
    [i \in DOMAIN rows |->
        SupRow(rows[i], "nhsn", nhsn_location_key(rows[i].agg_level, rows[i].location))]

\* load_supplementary_nssp
load_supplementary_nssp(rows) ==
    [i \in DOMAIN rows |->
        SupRow(rows[i], "nssp", nssp_location_key(rows[i].agg_level, rows[i].location))]

DropColumnTarget(r) ==
    [location |-> r.location, source |-> r.source, geo_type |-> r.geo_type,
     wk_end_date |-> r.wk_end_date, season |-> r.season,
     season_week |-> r.season_week, inc |-> r.inc]

\* the sources whose loader load_all_data calls: the primary source always, a
\* supplementary source when its toggle is on
CalledSources(model_config) ==
    {"mchub"}
    \cup (IF model_config.use_ilinet THEN {"ilinet"} ELSE {})
    \cup (IF model_config.use_flusurvnet THEN {"flusurvnet"} ELSE {})
    \cup (IF model_config.use_nhsn THEN {"nhsn"} ELSE {})
    \cup (IF model_config.use_nssp_extra THEN {"nssp"} ELSE {})

\* a load_all_data that goes on without a supplementary source that failed
load_all_data_raises_primaryonly(model_config, broken) == "mchub" \in broken

\* load_all_data raises when a loader it calls raises (nothing is caught);
\* broken is the set of sources whose loader raises
load_all_data_raises(model_config, broken) ==
    \E source \in broken : source \in CalledSources(model_config)

\* a load_all_data that drops the seasons of the primary source only
load_all_data_dropprimary(model_config, raw_rows, sup) ==
    LET df_mchub == load_mchub_data(raw_rows)
        df_mchub_train == [i \in DOMAIN df_mchub |-> DropColumnTarget(df_mchub[i])]
    IN  SelectSeq(df_mchub_train, LAMBDA r : r.season \notin model_config.drop_seasons)
        \o (IF model_config.use_ilinet
            THEN load_supplementary_ilinet(sup.ilinet) ELSE <<>>)
        \o (IF model_config.use_flusurvnet
            THEN load_supplementary_flusurvnet(sup.flusurvnet) ELSE <<>>)
        \o (IF model_config.use_nhsn
            THEN load_supplementary_nhsn(sup.nhsn) ELSE <<>>)
        \o (IF model_config.use_nssp_extra
            THEN load_supplementary_nssp(sup.nssp) ELSE <<>>)

\* load_all_data, when no loader raises: model_config is the configuration,
\* raw_rows the hub's target data, sup what iddata returns for each source
load_all_data(model_config, raw_rows, sup) ==
    LET df_mchub == load_mchub_data(raw_rows)
        df_mchub_train == [i \in DOMAIN df_mchub |-> DropColumnTarget(df_mchub[i])]
        df_combined ==
            df_mchub_train
            \o (IF model_config.use_ilinet
                THEN load_supplementary_ilinet(sup.ilinet) ELSE <<>>)
            \o (IF model_config.use_flusurvnet
                THEN load_supplementary_flusurvnet(sup.flusurvnet) ELSE <<>>)
            \o (IF model_config.use_nhsn
                THEN load_supplementary_nhsn(sup.nhsn) ELSE <<>>)
            \o (IF model_config.use_nssp_extra
                THEN load_supplementary_nssp(sup.nssp) ELSE <<>>)
    IN  IF model_config.drop_seasons # {}
        THEN SelectSeq(df_combined, LAMBDA r : r.season \notin model_config.drop_seasons)
        ELSE df_combined

(***************************************************************************)
(* transforms.py.  A data frame is a sequence of rows (records); a column  *)
(* is a field of every row.                                                *)
(***************************************************************************)
Eps == Rat(1, 100)

\* the non-negative integer r with r^4 = n (n is a perfect fourth power)
IRoot4(n) == CHOOSE r \in 0..n : r * r * r * r = n
HasIRoot4(n) == \E r \in 0..n : r * r * r * r = n
\* x ** 0.25, exact on the rationals whose fourth root is rational
Root4(x) == IF IsNaN(x) THEN NaN ELSE Rat(IRoot4(x.n), IRoot4(x.d))
HasRoot4(x) == ~IsNaN(x) /\ x.n >= 0 /\ HasIRoot4(x.n) /\ HasIRoot4(x.d)

SupportedPowerTransform(power_transform) == power_transform \in {"None", "4rt"}

\* apply_power_transform (raises ValueError on any other name)
apply_power_transform(inc, power_transform) ==
    IF power_transform = "None" THEN RAdd(inc, Eps)
    ELSE Root4(RAdd(inc, Eps))

\* inverse_power_transform
inverse_power_transform(inc_trans, power_transform) ==
    IF power_transform = "None" THEN RSub(inc_trans, Eps)
    ELSE RSub(RPow(inc_trans, 4), Eps)

RECURSIVE RSum(_)
\* the sum of the values, by halves (the sum of exact rationals does not
\* depend on the order)
RSum(xs) ==
    IF xs = <<>> THEN Zero
    ELSE IF Len(xs) = 1 THEN xs[1]
    ELSE LET mid == Len(xs) \div 2
         IN  RAdd(RSum(SubSeq(xs, 1, mid)), RSum(SubSeq(xs, mid + 1, Len(xs))))

\* Series.mean(): the mean of the values that are not NaN, NaN if there is none
SeriesMean(xs) ==
    LET vals == SelectSeq(xs, LAMBDA v : ~IsNaN(v))
    IN  IF vals = <<>> THEN NaN ELSE RDiv(RSum(vals), Rat(Len(vals), 1))

\* Series.quantile(0.95): linear interpolation between the order statistics of
\* the values that are not NaN, NaN if there is none
SeriesQuantile95(xs) ==
    LET vals == SortSeq(SelectSeq(xs, LAMBDA v : ~IsNaN(v)), RLt)
        n    == Len(vals)
        lo   == (19 * (n - 1)) \div 20
        frac == Rat(19 * (n - 1) - 20 * lo, 20)
    IN  IF n = 0 THEN NaN
        ELSE IF lo + 2 > n THEN vals[lo + 1]
        ELSE RAdd(vals[lo + 1], RMul(frac, RSub(vals[lo + 2], vals[lo + 1])))

FactorSeasonWeekLo == 10
FactorSeasonWeekHi == 45
InFactorWindow(season_week) ==
    season_week >= FactorSeasonWeekLo /\ season_week <= FactorSeasonWeekHi

SameGroup(r1, r2) == r1.source = r2.source /\ r1.location = r2.location

\* the column col of the rows of df in the group of row r, NaN outside weeks 10..45
InSeasonOfGroup(df, r, col) ==
    LET g == SelectSeq(df, LAMBDA q : SameGroup(q, r))
    IN  [i \in DOMAIN g |-> IF InFactorWindow(g[i].season_week) THEN g[i][col] ELSE NaN]

\* compute_scale_factors
compute_scale_factors(df) ==
    [i \in DOMAIN df |->
        df[i] @@ [inc_trans_scale_factor |->
                    SeriesQuantile95(InSeasonOfGroup(df, df[i], "inc_trans"))]]

\* center factors estimated anew for each season of a group
compute_center_factors_perseason(df) ==
    [i \in DOMAIN df |->
        df[i] @@ [inc_trans_center_factor |->
                    SeriesMean(InSeasonOfGroup(
                        SelectSeq(df, LAMBDA q : q.season = df[i].season),
                        df[i], "inc_trans_cs"))]]

\* compute_center_factors
compute_center_factors(df) ==
    [i \in DOMAIN df |->
        df[i] @@ [inc_trans_center_factor |->
                    SeriesMean(InSeasonOfGroup(df, df[i], "inc_trans_cs"))]]

\* apply_scale_center_transform, for a supported power transform
apply_scale_center_transform(df, power_transform) ==
    LET df1 == [i \in DOMAIN df |->
                  df[i] @@ [inc_trans |-> apply_power_transform(df[i].inc, power_transform)]]
        df2 == compute_scale_factors(df1)
        df3 == [i \in DOMAIN df2 |->
                  df2[i] @@ [inc_trans_cs |->
                      RDiv(df2[i].inc_trans, RAdd(df2[i].inc_trans_scale_factor, Eps))]]
        df4 == compute_center_factors(df3)
    IN  [i \in DOMAIN df4 |->
            [df4[i] EXCEPT !.inc_trans_cs = RSub(@, df4[i].inc_trans_center_factor)]]


\* NaN == NaN for drop_duplicates, unlike for the float comparison
FactorRow(r) ==
    [location |-> r.location,
     inc_trans_scale_factor |-> r.inc_trans_scale_factor,
     inc_trans_center_factor |-> r.inc_trans_center_factor]

\* get_transform_factors
get_transform_factors(df) ==
    LET rows == [i \in DOMAIN df |-> FactorRow(df[i])]
    IN  DropDuplicates(rows, rows)

\* inverse_scale_center_transform: a left merge on location, then the inverse
\* center, scale and power, then clip(lower=0) (which leaves NaN as it is)
inverse_scale_center_transform(predictions, transform_factors, power_transform) ==
    LET factors == DropDuplicates(transform_factors, transform_factors)
        merged(r) ==
            LET m == SelectSeq(factors, LAMBDA f : f.location = r.location)
            IN  IF m = <<>>
                THEN <<r @@ [inc_trans_scale_factor |-> NaN, inc_trans_center_factor |-> NaN]>>
                ELSE [k \in DOMAIN m |->
                        r @@ [inc_trans_scale_factor |-> m[k].inc_trans_scale_factor,
                              inc_trans_center_factor |-> m[k].inc_trans_center_factor]]
        df == Flatten([i \in DOMAIN predictions |-> merged(predictions[i])])
        inv(r) ==
            LET cs  == RAdd(r.inc_trans_cs, r.inc_trans_center_factor)
                it  == RMul(cs, RAdd(r.inc_trans_scale_factor, Eps))
                inc == inverse_power_transform(it, power_transform)
            IN  [r EXCEPT !.inc_trans_cs = cs] @@
                [inc_trans |-> it, inc |-> IF RLt(inc, Zero) THEN Zero ELSE inc]
    IN  [i \in DOMAIN df |-> inv(df[i])]

(***************************************************************************)
(* config.py: the defaults of ModelConfig and RunConfig the model keeps.   *)
(***************************************************************************)
\* ModelConfig.bag_frac_samples = 0.7, as tenths
BagFracTenths == 7
\* ModelConfig.drop_seasons
DefaultDropSeasons == {"2020/21", "2021/22"}
\* RunConfig.q_labels (the characters of each label) and q_levels, in
\* thousandths
QLabelChars ==
    <<<<"0", ".", "0", "2", "5">>, <<"0", ".", "0", "5">>, <<"0", ".", "1">>,
      <<"0", ".", "2", "5">>, <<"0", ".", "5">>, <<"0", ".", "7", "5">>,
      <<"0", ".", "9">>, <<"0", ".", "9", "5">>, <<"0", ".", "9", "7", "5">>>>
QLevelThousandths == <<25, 50, 100, 250, 500, 750, 900, 950, 975>>
q_labels == [k \in DOMAIN QLabelChars |-> Join(QLabelChars[k])]
q_levels == [k \in DOMAIN QLevelThousandths |-> Rat(QLevelThousandths[k], 1000)]
NumQ == Len(q_labels)
\* the level a label is paired with
LevelOf(label) == q_levels[CHOOSE k \in DOMAIN q_labels : q_labels[k] = label]

(***************************************************************************)
(* Python's order on str: by code point, a proper prefix first.            *)
(***************************************************************************)
CharCode(c) ==
    IF c = "." THEN 46
    ELSE 48 + (CHOOSE k \in 0..9 : DigitChar(k) = c)
RECURSIVE CharsLess(_, _)
CharsLess(a, b) ==
    IF b = <<>> THEN FALSE
    ELSE IF a = <<>> THEN TRUE
    ELSE IF Head(a) = Head(b) THEN CharsLess(Tail(a), Tail(b))
    ELSE CharCode(Head(a)) < CharCode(Head(b))
CharsOfLabel(label) == CHOOSE cs \in Range(QLabelChars) : Join(cs) = label
StrLess(a, b) == CharsLess(CharsOfLabel(a), CharsOfLabel(b))

(***************************************************************************)
(* model.py: the steps of GBQRModel.run.                                   *)
(***************************************************************************)
\* load_mchub_populations: NaN for a location the crosswalk does not have
PopulationOf(location) ==
    LET m == SelectSeq(LocationCrosswalk, LAMBDA c : c.location = location)
    IN  IF m = <<>> THEN NaN ELSE Rat(m[1].population, 1)

\* the preparation without the as-of filter
PrepareFrame_noasof(df, ref_date, power_transform) ==
    LET cols == [i \in DOMAIN df |->
                    df[i] @@ [agg_level |-> df[i].geo_type,
                              pop |-> PopulationOf(df[i].location)]]
    IN  apply_scale_center_transform(cols, power_transform)

\* run, lines 55-74: the as-of filter, agg_level, pop, and the transform
PrepareFrame(df, ref_date, power_transform) ==
    LET asof == SelectSeq(df, LAMBDA r : r.wk_end_date <= ref_date)
        cols == [i \in DOMAIN asof |->
                    asof[i] @@ [agg_level |-> asof[i].geo_type,
                                pop |-> PopulationOf(asof[i].location)]]
    IN  apply_scale_center_transform(cols, power_transform)

\* the delta target of row r at horizon h: the value h weeks later in the same
\* (source, location) group minus the value of r, NaN when no such row exists
DeltaTarget(df, r, h) ==
    LET m == SelectSeq(df, LAMBDA q : /\ SameGroup(q, r)
                                      /\ q.wk_end_date = r.wk_end_date + 7 * h)
    IN  IF m = <<>> THEN NaN ELSE RSub(m[1].inc_trans_cs, r.inc_trans_cs)

\* features and targets for the largest horizon only
create_features_and_targets_lasthorizon(df, max_horizon) ==
    [i \in DOMAIN df |->
        df[i] @@ [horizon |-> max_horizon,
                  delta_target |-> DeltaTarget(df, df[i], max_horizon)]]

\* idmodels.preprocess.create_features_and_targets, as run uses its result:
\* the frame stacked over the horizons 1..max_horizon, with delta_target
create_features_and_targets(df, max_horizon) ==
    Flatten([h \in 1..max_horizon |->
                [i \in DOMAIN df |->
                    df[i] @@ [horizon |-> h, delta_target |-> DeltaTarget(df, df[i], h)]]])

TrainSeasonWeekLo == 5
TrainSeasonWeekHi == 45
\* run, line 86
InSeasonFilter(df) ==
    SelectSeq(df, LAMBDA r : /\ r.season_week >= TrainSeasonWeekLo
                             /\ r.season_week <= TrainSeasonWeekHi)

\* run, lines 89-93: the rows of the latest week of the whole frame whose
\* location is one of mchub_locs
TestSetOf(df, mchub_locs) ==
    SelectSeq(df, LAMBDA r : /\ \A q \in Range(df) : q.wk_end_date <= r.wk_end_date
                             /\ r.location \in Range(mchub_locs))

\* the test set under the crosswalk of the hub
TestSet(df) == TestSetOf(df, get_mchub_locations)

\* run, line 96
TrainSet(df) == SelectSeq(df, LAMBDA r : ~IsNaN(r.delta_target))

\* Series.unique(): the distinct values in the order of first appearance
UniqueLocations(df) ==
    LET locs == [i \in DOMAIN df |-> df[i].location]
    IN  DropDuplicates(locs, locs)

\* _get_test_quantile_predictions, lines 239-247: the seasons each bag samples
BagSize(df_train) ==
    (Cardinality({df_train[i].season : i \in DOMAIN df_train}) * BagFracTenths) \div 10

\* LightGBM refuses an empty frame: fit on a bag without rows, predict on a test
\* set without rows
FitOrPredictRaises(df_train, df_test) == BagSize(df_train) = 0 \/ df_test = <<>>

\* the prediction of test row i for the k-th quantile level under the pattern
\* pat the regressors happened to return
PredictionOf(pat, i, k) ==
    pat[(((i - 1) + (((k - 1) * Len(pat)) \div NumQ)) % Len(pat)) + 1]

\* _train_and_predict, lines 183-198: the inverse transform of one melted row
InverseInline(r, power_transform) ==
    LET cs_hat == RAdd(r.inc_trans_cs, r.delta_hat)
        it_hat == RMul(RAdd(cs_hat, r.inc_trans_center_factor),
                       RAdd(r.inc_trans_scale_factor, Eps))
        inv_power == IF power_transform = "4rt" THEN 4 ELSE 1
    IN  r @@ [inc_trans_cs_target_hat |-> cs_hat,
              inc_trans_target_hat |-> it_hat,
              value |-> RMax(RSub(RPow(RMax(it_hat, Zero), inv_power), Eps), Zero)]

\* _train_and_predict, lines 161-181: one melted row of test row t
MeltedRow(t, label, delta) ==
    [source |-> t.source, location |-> t.location, wk_end_date |-> t.wk_end_date,
     pop |-> t.pop, inc_trans_cs |-> t.inc_trans_cs, horizon |-> t.horizon,
     inc_trans_center_factor |-> t.inc_trans_center_factor,
     inc_trans_scale_factor |-> t.inc_trans_scale_factor,
     quantile |-> label, delta_hat |-> delta]

\* a _train_and_predict without the filter on the source
train_and_predict_anysource(df_train, df_test, location, pat, power_transform) ==
    LET test == IF location = "None" THEN df_test
                ELSE SelectSeq(df_test, LAMBDA r : r.location = location)
        melted == Flatten([k \in 1..NumQ |->
                     [i \in DOMAIN test |->
                          MeltedRow(test[i], q_labels[k], PredictionOf(pat, i, k))]])
    IN  [j \in DOMAIN melted |-> InverseInline(melted[j], power_transform)]

\* _train_and_predict, lines 161-198: the test rows with the predictions
\* test_pred_qs (one per row and label), the filter on the source, the melt
\* and the inverse transform
MeltAndInvert(test, labels, test_pred_qs, power_transform) ==
    LET rows == {i \in DOMAIN test : test[i].source = "mchub"}
        melted == Flatten([k \in DOMAIN labels |->
                     Pick([i \in DOMAIN test |->
                              MeltedRow(test[i], labels[k], test_pred_qs[i][k])],
                          rows)])
    IN  [j \in DOMAIN melted |-> InverseInline(melted[j], power_transform)]

\* _train_and_predict when nothing raises; location is "None" or a location
train_and_predict(df_train, df_test, location, pat, power_transform) ==
    LET test == IF location = "None" THEN df_test
                ELSE SelectSeq(df_test, LAMBDA r : r.location = location)
    IN  MeltAndInvert(test, q_labels,
                      [i \in DOMAIN test |-> [k \in 1..NumQ |-> PredictionOf(pat, i, k)]],
                      power_transform)

\* the training rows _train_and_predict fits on
TrainRowsFor(df_train, location) ==
    IF location = "None" THEN df_train
    ELSE SelectSeq(df_train, LAMBDA r : r.location = location)

\* run, lines 98-111, raises: a fit or predict on no rows, or pd.concat of an
\* empty list when no location has a test row
PredictRaises(df_train, df_test, fit_locations_separately) ==
    IF fit_locations_separately
    THEN \/ df_test = <<>>
         \/ \E l \in Range(UniqueLocations(df_test)) :
                FitOrPredictRaises(TrainRowsFor(df_train, l),
                                   SelectSeq(df_test, LAMBDA r : r.location = l))
    ELSE FitOrPredictRaises(df_train, df_test)

\* run, lines 98-111
Predict(df_train, df_test, fit_locations_separately, pat, power_transform) ==
    IF fit_locations_separately
    THEN LET locations == UniqueLocations(df_test)
         IN  Flatten([n \in DOMAIN locations |->
                 train_and_predict(df_train, df_test, locations[n], pat, power_transform)])
    ELSE train_and_predict(df_train, df_test, "None", pat, power_transform)

\* int(x / 7): the quotient truncated toward zero
IntDiv7(days) == IF days >= 0 THEN days \div 7 ELSE -((-days) \div 7)

\* _format_as_mchub_output
format_as_mchub_output(preds, ref_date) ==
    [i \in DOMAIN preds |->
        LET target_end_date == preds[i].wk_end_date + 7 * preds[i].horizon
        IN  [location        |-> preds[i].location,
             reference_date  |-> ref_date,
             horizon         |-> IntDiv7(target_end_date - ref_date),
             target_end_date |-> target_end_date,
             target          |-> IF preds[i].location = "nyc" THEN "ILI ED visits pct"
                                 ELSE "Flu ED visits pct",
             output_type     |-> "quantile",
             output_type_id  |-> preds[i].quantile,
             value           |-> preds[i].value]]

\* the group key of _quantile_noncrossing (gcols)
GroupKey(r) ==
    <<r.location, r.reference_date, r.horizon, r.target_end_date, r.target, r.output_type>>

\* a repair by running maximum in place of the sort
RECURSIVE RunningMax(_, _)
RunningMax(xs, k) == IF k = 1 THEN xs[1] ELSE RMax(RunningMax(xs, k - 1), xs[k])

SortValues_runningmax(xs) == [k \in DOMAIN xs |-> RunningMax(xs, k)]

\* Series.sort_values() on floats: ascending, NaN last
SortValues(xs) ==
    SortSeq(SelectSeq(xs, LAMBDA v : ~IsNaN(v)), RLt) \o SelectSeq(xs, IsNaN)

\* Series.sort_values() on the labels: ascending in the order of str
SortLabels(ls) == SortSeq(ls, StrLess)

\* _quantile_noncrossing: within each group, the sorted labels and the sorted
\* values are written back to the rows of the group in their order
quantile_noncrossing(preds) ==
    [i \in DOMAIN preds |->
        LET members == {j \in DOMAIN preds : GroupKey(preds[j]) = GroupKey(preds[i])}
            group   == Pick(preds, members)
            rank    == Cardinality({j \in members : j <= i})
        IN  [preds[i] EXCEPT
                !.output_type_id =
                    SortLabels([k \in DOMAIN group |-> group[k].output_type_id])[rank],
                !.value = SortValues([k \in DOMAIN group |-> group[k].value])[rank]]]

(***************************************************************************)
(* model.py: _get_test_quantile_predictions.  The generator of numpy is a  *)
(* small congruential generator: what matters is that every draw is a      *)
(* function of the state of the generator and moves it on.  The regressor  *)
(* of LightGBM is a function of the rows it is fitted on, its quantile     *)
(* level and its random_state; it predicts within the targets it has seen. *)
(***************************************************************************)
\* a seed that also takes the time of the call
rng_seed_clock(ref_date, clock) == (ref_date - Ordinal(1970, 1, 1)) * 86400 + clock

\* lines 222-223: calendar.timegm(ref_date.timetuple()); clock is the time of
\* the call, which the code does not read
rng_seed(ref_date, clock) == (ref_date - Ordinal(1970, 1, 1)) * 86400

\* np.random.default_rng(seed)
default_rng(seed) == [state |-> seed % 101]

\* one step of the generator
RngStep(rng) == [state |-> (rng.state * 7 + 3) % 101]

\* rng.integers(high): the value and the generator after the draw
RngInteger(rng, high) == [value |-> RngStep(rng).state % high, rng |-> RngStep(rng)]

RECURSIVE RngIntegers(_, _, _)
\* rng.integers(high, size=n): n draws one after the other
RngIntegers(rng, high, n) ==
    IF n = 0 THEN [values |-> <<>>, rng |-> rng]
    ELSE LET d    == RngInteger(rng, high)
             rest == RngIntegers(d.rng, high, n - 1)
         IN  [values |-> <<d.value>> \o rest.values, rng |-> rest.rng]

\* the sequence xs without its k-th element
RemoveAt(xs, k) == SubSeq(xs, 1, k - 1) \o SubSeq(xs, k + 1, Len(xs))

RECURSIVE rng_choice_replace(_, _, _)
\* a choice with replacement
rng_choice_replace(rng, xs, size) ==
    IF size = 0 THEN [values |-> <<>>, rng |-> rng]
    ELSE LET d    == RngInteger(rng, Len(xs))
             rest == rng_choice_replace(d.rng, xs, size - 1)
         IN  [values |-> <<xs[d.value + 1]>> \o rest.values, rng |-> rest.rng]

RECURSIVE rng_choice(_, _, _)
\* rng.choice(xs, size=size, replace=False): each draw takes one of the
\* elements left
rng_choice(rng, xs, size) ==
    IF size = 0 THEN [values |-> <<>>, rng |-> rng]
    ELSE LET d    == RngInteger(rng, Len(xs))
             rest == rng_choice(d.rng, RemoveAt(xs, d.value + 1), size - 1)
         IN  [values |-> <<xs[d.value + 1]>> \o rest.values, rng |-> rest.rng]

\* df_train["season"].unique()
TrainSeasons(df_train) ==
    LET seasons == [i \in DOMAIN df_train |-> df_train[i].season]
    IN  DropDuplicates(seasons, seasons)

\* line 248: bag_obs_inds, as the set of the positions of the rows of the bag
BagObsInds(df_train, bag_seasons) ==
    {i \in DOMAIN df_train : df_train[i].season \in Range(bag_seasons)}

\* LGBMRegressor(objective="quantile", alpha=q_levels[q_ind],
\* random_state=seed).fit(rows).predict(x): a function of its arguments, one
\* of the targets of the rows it is fitted on
RegressorPredict(rows, q_ind, seed, x) ==
    rows[((seed + q_ind + x) % Len(rows)) + 1].delta_target

\* the mean across the bags
NpMedian_mean(xs) == RDiv(RSum(xs), Rat(Len(xs), 1))

\* np.median over the bags: the middle of the sorted values, the mean of the
\* two middle ones when their number is even
NpMedian(xs) ==
    LET sorted == SortSeq(xs, RLt)
        n      == Len(xs)
    IN  IF n % 2 = 1 THEN sorted[(n + 1) \div 2]
        ELSE RDiv(RAdd(sorted[n \div 2], sorted[(n \div 2) + 1]), Rat(2, 1))

\* an aggregation that does not wait for the last bag
BagLoopDone_early(b, num_bags) == b >= 1

\* line 241: range(num_bags) is exhausted after b bags
BagLoopDone(b, num_bags) == b = num_bags

\* a handler that catches the error of a fit and goes on with the next bag
FitErrorHandler_skipbag(call) ==
    [call EXCEPT !.pc = "bag", !.b = @ + 1, !.q_ind = 0]

\* lines 241-264: no try/except around fit and predict, the exception leaves
\* the loops and the function
FitErrorHandler(call) ==
    [call EXCEPT !.pc = "raised",
                 !.runs = Append(@, [raised |-> TRUE, lgb_seeds |-> call.lgb_seeds,
                                     bags |-> call.bags, out |-> <<>>])]

(***************************************************************************)
(* State.                                                                  *)
(***************************************************************************)
VARIABLES
    cfg,        \* ModelConfig and RunConfig of the run
    raw,        \* what the sources return: the hub's target data, iddata's frames
    pc,         \* the step GBQRModel.run is about to take
    failed_at,  \* the step that raised, "none" while none has
    df,         \* run's data frame df
    df_test,    \* run's df_test
    df_train,   \* run's df_train
    preds_df,   \* run's preds_df
    out_file,   \* the output file of the reference date
    sea,        \* one evaluation of _date_to_season / _date_to_season_week
    ns,         \* two raw (source, location, agg_level) triples and their keys
    tr,         \* one forward and inverse pass of the transform engine
    ld,         \* one call of load_all_data
    ts,         \* one selection of the test set and call of _train_and_predict
    bg,         \* calls of _get_test_quantile_predictions
    fm,         \* one call of _format_as_mchub_output on one prediction row
    cm,         \* one call of _get_commit_at_date
    sp,         \* two dates of one season and their season weeks
    iv          \* one scaled value under the two inverse transforms

runvars == <<cfg, raw, pc, failed_at, df, df_test, df_train, preds_df, out_file>>
vars == <<cfg, raw, pc, failed_at, df, df_test, df_train, preds_df, out_file, sea, ns, tr,
          ld, ts, bg, fm, cm, sp, iv>>
aux == <<fm, cm, sp, iv>>

IdleRun ==
    /\ cfg = <<>>
    /\ raw = <<>>
    /\ pc = "idle"
    /\ failed_at = "none"
    /\ df = <<>>
    /\ df_test = <<>>
    /\ df_train = <<>>
    /\ preds_df = <<>>
    /\ out_file = [exists |-> FALSE, rows |-> <<>>]

IdleSea == sea = [date |-> 0, season |-> "", season_week |-> 0]
IdleNs == ns = [a |-> <<>>, b |-> <<>>, key_a |-> "", key_b |-> ""]
IdleTr == tr = [pc |-> "idle"]
IdleLd == ld = [pc |-> "idle"]
IdleTs == ts = [pc |-> "idle"]
IdleBg == bg = [pc |-> "idle"]
IdleFm == fm = [pc |-> "idle"]
IdleCm == cm = [pc |-> "idle"]
IdleSp == sp = [pc |-> "idle"]
IdleIv == iv = [pc |-> "idle"]
IdleAux == IdleFm /\ IdleCm /\ IdleSp /\ IdleIv

(***************************************************************************)
(* Spec: one call of GBQRModel.run, step by step.                          *)
(***************************************************************************)
\* week-ending Saturdays: one of the dropped season 2021/22, two of 2022/23
\* (season weeks 18, 19), three of 2023/24 (season weeks 5, 6, 7)
WkDropped == Ordinal(2022, 2, 5)
WkA1 == Ordinal(2023, 2, 4)
WkA2 == Ordinal(2023, 2, 11)
WkB1 == Ordinal(2023, 11, 4)
WkB2 == Ordinal(2023, 11, 11)
WkB3 == Ordinal(2023, 11, 18)

\* every observation of the run is 0.99, so that x + 0.01 has the fourth root 1
Obs == Rat(99, 100)
Targets == {"Flu ED visits pct", "ILI ED visits pct"}
HubTarget(location) == IF location = "nyc" THEN "ILI ED visits pct" ELSE "Flu ED visits pct"
RawRow(location, date, target) ==
    [location |-> location, target_end_date |-> date, observation |-> Obs, target |-> target]
RawBlock(location, dates) ==
    [i \in DOMAIN dates |-> RawRow(location, dates[i], HubTarget(location))]

\* the weeks the hub has of each location, and up to MaxExtraRows further rows
BostonWeeks == <<WkA1, WkA2, WkB1, WkB2>>
NycCoverages == {<<>>, <<WkA1, WkA2, WkB1, WkB2>>, <<WkB1, WkB2>>, <<WkA1, WkA2, WkB1>>}
MaxExtraRows == 1
ExtraRows == {RawRow(l, d, t) : l \in HubSlugs, d \in {WkDropped, WkB2, WkB3}, t \in Targets}
ExtraSeqs == UNION {[1..k -> ExtraRows] : k \in 0..MaxExtraRows}
HubTables ==
    {RawBlock("boston", BostonWeeks) \o RawBlock("nyc", c) \o e :
        c \in NycCoverages, e \in ExtraSeqs}

\* what iddata's loaders return
SupFrame(codes, dates) ==
    Flatten([c \in DOMAIN codes |->
        [i \in DOMAIN dates |->
            [location |-> codes[c][1], agg_level |-> codes[c][2],
             wk_end_date |-> dates[i], inc |-> Obs]]])
SupFrames ==
    [ilinet     |-> SupFrame(<<<<"National", "national">>, <<"Puerto Rico", "state">>>>,
                             <<WkA1, WkA2>>),
     flusurvnet |-> SupFrame(<<<<"Entire Network", "national">>>>, <<WkA1, WkA2>>),
     nhsn       |-> SupFrame(<<<<"US", "national">>>>, <<WkA1, WkA2, WkB1, WkB2>>),
     nssp       |-> SupFrame(<<<<"11", "state">>, <<"11", "hsa">>>>, <<WkB2, WkB3>>)]

SupSources == {"ilinet", "flusurvnet", "nhsn", "nssp"}
MaxSupSources == 1
MaxHorizon == 2
PowerTransforms == {"4rt", "None", "sqrt"}
Configs ==
    {[power_transform |-> pt, fit_locations_separately |-> sep,
      use_ilinet |-> "ilinet" \in on, use_flusurvnet |-> "flusurvnet" \in on,
      use_nhsn |-> "nhsn" \in on, use_nssp_extra |-> "nssp" \in on,
      drop_seasons |-> DefaultDropSeasons,
      ref_date |-> WkB3, max_horizon |-> MaxHorizon] :
        pt \in PowerTransforms, sep \in BOOLEAN,
        on \in {x \in SUBSET SupSources : Cardinality(x) <= MaxSupSources}}

\* the predictions the regressors may return for the lower, middle and upper
\* levels of a test row, in the transformed scale: ascending, descending
\* (crossing), flat, mixed; PredictionOf rotates the pattern from one test row
\* to the next
PredictionPatterns ==
    {<<Rat(-1, 1), Rat(0, 1), Rat(1, 1)>>, <<Rat(1, 1), Rat(0, 1), Rat(-1, 1)>>,
     <<Rat(0, 1), Rat(0, 1), Rat(0, 1)>>, <<Rat(1, 1), Rat(-1, 1), Rat(0, 1)>>}

Init ==
    /\ IdleAux
    /\ IdleSea
    /\ IdleNs
    /\ IdleTr
    /\ IdleLd
    /\ IdleTs
    /\ IdleBg
    /\ cfg \in Configs
    /\ raw \in {[mchub |-> t, sup |-> SupFrames] : t \in HubTables}
    /\ pc = "load"
    /\ failed_at = "none"
    /\ df = <<>>
    /\ df_test = <<>>
    /\ df_train = <<>>
    /\ preds_df = <<>>
    /\ out_file = [exists |-> FALSE, rows |-> <<>>]

\* an exception leaves run: its locals are gone, nothing else changes
RaiseAt(step) ==
    /\ pc' = "failed"
    /\ failed_at' = step
    /\ df' = <<>>
    /\ df_test' = <<>>
    /\ df_train' = <<>>
    /\ preds_df' = <<>>
    /\ UNCHANGED <<cfg, raw, out_file, sea, ns, tr, ld, ts, bg, aux>>

\* run, lines 48-53
LoadAllData ==
    /\ pc = "load"
    /\ pc' = "prepare"
    /\ df' = load_all_data(cfg, raw.mchub, raw.sup)
    /\ UNCHANGED <<cfg, raw, failed_at, df_test, df_train, preds_df, out_file, sea, ns, tr, ld, ts, bg, aux>>

\* run, lines 55-74; apply_power_transform raises on an unsupported name
Prepare ==
    /\ pc = "prepare"
    /\ IF SupportedPowerTransform(cfg.power_transform)
       THEN /\ pc' = "features"
            /\ df' = PrepareFrame(df, cfg.ref_date, cfg.power_transform)
            /\ UNCHANGED <<cfg, raw, failed_at, df_test, df_train, preds_df, out_file,
                           sea, ns, tr, ld, ts, bg, aux>>
       ELSE RaiseAt("prepare")

\* a run that filters to the season before it builds the targets
BuildFeatures_filterfirst ==
    /\ pc = "features"
    /\ pc' = "predict"
    /\ LET feats == create_features_and_targets(InSeasonFilter(df), cfg.max_horizon)
       IN  /\ df' = feats
           /\ df_test' = TestSet(feats)
           /\ df_train' = TrainSet(feats)
    /\ UNCHANGED <<cfg, raw, failed_at, preds_df, out_file, sea, ns, tr, ld, ts, bg, aux>>

\* run, lines 76-96
BuildFeatures ==
    /\ pc = "features"
    /\ pc' = "predict"
    /\ LET feats == InSeasonFilter(create_features_and_targets(df, cfg.max_horizon))
       IN  /\ df' = feats
           /\ df_test' = TestSet(feats)
           /\ df_train' = TrainSet(feats)
    /\ UNCHANGED <<cfg, raw, failed_at, preds_df, out_file, sea, ns, tr, ld, ts, bg, aux>>

\* run, lines 98-111
TrainAndPredict ==
    /\ pc = "predict"
    /\ IF PredictRaises(df_train, df_test, cfg.fit_locations_separately)
       THEN RaiseAt("predict")
       ELSE \E pat \in PredictionPatterns :
            /\ pc' = "format"
            /\ preds_df' = Predict(df_train, df_test, cfg.fit_locations_separately,
                                   pat, cfg.power_transform)
            /\ UNCHANGED <<cfg, raw, failed_at, df, df_test, df_train, out_file, sea, ns, tr, ld, ts, bg, aux>>

\* a format step that already writes the file
FormatOutput_saving ==
    /\ pc = "format"
    /\ pc' = "noncrossing"
    /\ preds_df' = format_as_mchub_output(preds_df, cfg.ref_date)
    /\ out_file' = [exists |-> TRUE, rows |-> preds_df']
    /\ UNCHANGED <<cfg, raw, failed_at, df, df_test, df_train, sea, ns, tr, ld, ts, bg, aux>>

\* run, line 114
FormatOutput ==
    /\ pc = "format"
    /\ pc' = "noncrossing"
    /\ preds_df' = format_as_mchub_output(preds_df, cfg.ref_date)
    /\ UNCHANGED <<cfg, raw, failed_at, df, df_test, df_train, out_file, sea, ns, tr, ld, ts, bg, aux>>

\* run, lines 117-120
QuantileNoncrossing ==
    /\ pc = "noncrossing"
    /\ pc' = "save"
    /\ preds_df' = quantile_noncrossing(preds_df)
    /\ UNCHANGED <<cfg, raw, failed_at, df, df_test, df_train, out_file, sea, ns, tr, ld, ts, bg, aux>>

\* _save_predictions writes preds_df to the file of the reference date
save_predictions(preds, file) == [exists |-> TRUE, rows |-> preds]

\* run, lines 123-125
SavePredictions ==
    /\ pc = "save"
    /\ pc' = "done"
    /\ out_file' = save_predictions(preds_df, out_file)
    /\ UNCHANGED <<cfg, raw, failed_at, df, df_test, df_train, preds_df, sea, ns, tr, ld, ts, bg, aux>>

\* a step before the save raises: a fetch fails, a file is missing, the
\* regressor library fails
StepRaises ==
    /\ pc \in {"load", "prepare", "features", "predict", "format", "noncrossing"}
    /\ RaiseAt(pc)

Next ==
    \/ LoadAllData
    \/ Prepare
    \/ BuildFeatures
    \/ TrainAndPredict
    \/ FormatOutput
    \/ QuantileNoncrossing
    \/ SavePredictions
    \/ StepRaises

Spec == Init /\ [][Next]_vars

(***************************************************************************)
(* SpecSeason: load_mchub_data applies both season functions to a date.    *)
(***************************************************************************)
NumSeasonDates == 2200
SeasonDates == LET first == Ordinal(2020, 1, 1) IN first..(first + NumSeasonDates - 1)

SeasonInit ==
    /\ IdleAux
    /\ IdleRun
    /\ IdleNs
    /\ IdleTr
    /\ IdleLd
    /\ IdleTs
    /\ IdleBg
    /\ sea \in {[date |-> d, season |-> "", season_week |-> 0] : d \in SeasonDates}

CallDateToSeason ==
    /\ sea.season = ""
    /\ sea' = [sea EXCEPT !.season = date_to_season(sea.date)]
    /\ UNCHANGED <<runvars, ns, tr, ld, ts, bg, aux>>

CallDateToSeasonWeek ==
    /\ sea.season_week = 0
    /\ sea' = [sea EXCEPT !.season_week = date_to_season_week(sea.date)]
    /\ UNCHANGED <<runvars, ns, tr, ld, ts, bg, aux>>

SeasonNext == CallDateToSeason \/ CallDateToSeasonWeek

SpecSeason == SeasonInit /\ [][SeasonNext]_vars

SeasonDone == sea.season # "" /\ sea.season_week # 0

\* "Y/YY" for the season that starts in year sy
SeasonLabel(sy) ==
    LET yy == (sy + 1) % 100
    IN  ToString(sy) \o "/" \o (IF yy < 10 THEN "0" ELSE "") \o ToString(yy)

\* C10: season and season-week are functions of the date's MMWR (year, week):
\* week >= 40 of year Y gives season Y/(Y+1) and season-week week-39, week < 40
\* gives season (Y-1)/Y and season-week week+13; the dates of MMWR week 40 of
\* 2023 (1..7 Oct 2023) give ("2023/24", 1) and those of week 39 of 2024
\* (22..28 Sep 2024) give ("2023/24", 52).
C10_SeasonMapping ==
    LET ew == date_to_epiweek(sea.date)
    IN  /\ sea.season # "" =>
              sea.season = SeasonLabel(IF ew.week >= 40 THEN ew.year ELSE ew.year - 1)
        /\ sea.season_week # 0 =>
              sea.season_week = (IF ew.week >= 40 THEN ew.week - 39 ELSE ew.week + 13)
        /\ (SeasonDone /\ sea.date \in Ordinal(2023, 10, 1)..Ordinal(2023, 10, 7)) =>
              (sea.season = "2023/24" /\ sea.season_week = 1)
        /\ (SeasonDone /\ sea.date \in Ordinal(2024, 9, 22)..Ordinal(2024, 9, 28)) =>
              (sea.season = "2023/24" /\ sea.season_week = 52)

C10_Witness ==
    /\ sea.date = Ordinal(2024, 9, 28)
    /\ sea.season = "2023/24"
    /\ sea.season_week = 52

\* C11: for every date, also one in MMWR week 53 of a 53-week year,
\* _date_to_season_week returns an integer in 1..52.
C11_SeasonWeekInRange ==
    /\ date_to_season_week(sea.date) \in 1..52
    /\ sea.season_week # 0 => sea.season_week \in 1..52

\* 30 Dec 2020 lies in MMWR week 53 of 2020
C11_Witness ==
    /\ sea.date = Ordinal(2020, 12, 30)
    /\ date_to_epiweek(sea.date) = [year |-> 2020, week |-> 53]
    /\ sea.season_week = 14

(***************************************************************************)
(* SpecSeasonPair: load_mchub_data gives two rows, at most MaxGapDays      *)
(* apart, their season and season week.                                    *)
(***************************************************************************)
MaxGapDays == 14
PairFirstDates == Ordinal(2025, 12, 1)..Ordinal(2026, 1, 15)

SeasonPairInit ==
    /\ IdleRun
    /\ IdleSea
    /\ IdleNs
    /\ IdleTr
    /\ IdleLd
    /\ IdleTs
    /\ IdleBg
    /\ IdleFm
    /\ IdleCm
    /\ IdleIv
    /\ sp \in {[pc |-> "dates", a |-> d, b |-> d + gap,
                 season_a |-> "", season_b |-> "", season_week_a |-> 0, season_week_b |-> 0] :
                   d \in PairFirstDates, gap \in 1..MaxGapDays}

\* load_mchub_data, line 183
ApplyDateToSeason ==
    /\ sp.pc = "dates"
    /\ sp' = [sp EXCEPT !.pc = "seasons",
                        !.season_a = date_to_season(sp.a),
                        !.season_b = date_to_season(sp.b)]
    /\ UNCHANGED <<runvars, sea, ns, tr, ld, ts, bg, fm, cm, iv>>

\* load_mchub_data, line 184
ApplyDateToSeasonWeek ==
    /\ sp.pc = "seasons"
    /\ sp' = [sp EXCEPT !.pc = "season_weeks",
                        !.season_week_a = date_to_season_week(sp.a),
                        !.season_week_b = date_to_season_week(sp.b)]
    /\ UNCHANGED <<runvars, sea, ns, tr, ld, ts, bg, fm, cm, iv>>

SeasonPairNext == ApplyDateToSeason \/ ApplyDateToSeasonWeek

SpecSeasonPair == SeasonPairInit /\ [][SeasonPairNext]_vars

\* C28: two dates of one season that lie in different epidemiological weeks
\* have different season weeks.
C28_SeasonWeekInjective ==
    (/\ sp.pc = "season_weeks"
     /\ sp.season_a = sp.season_b
     /\ date_to_epiweek(sp.a) # date_to_epiweek(sp.b))
        => sp.season_week_a # sp.season_week_b

\* what the code keeps: two dates of one season have the same season week
\* only when they lie in the same epidemiological week, or one in a week 53
\* and the other in the week 1 that follows it
SeasonWeekInjectiveBut53 ==
    (/\ sp.pc = "season_weeks"
     /\ sp.season_a = sp.season_b
     /\ date_to_epiweek(sp.a) # date_to_epiweek(sp.b)
     /\ date_to_epiweek(sp.a).week # 53)
        => sp.season_week_a # sp.season_week_b

(***************************************************************************)
(* SpecNames: the source adapters name the locations of two raw triples.   *)
(***************************************************************************)
RawCodes == {"11", "36", "US"}
\* the aggregation levels each adapter maps to a geo_type
AggLevels(source) ==
    CASE source = "ilinet"     -> {"national", "hhs", "state"}
      [] source = "flusurvnet" -> {"national", "site"}
      [] source = "nhsn"       -> {"national", "state"}
      [] source = "nssp"       -> {"national", "state", "hsa"}
\* the hub's crosswalk gives every slug one geo_type
RawTriples ==
    {[source |-> "mchub", location |-> l, agg_level |-> "hsa"] : l \in HubSlugs}
    \cup UNION {
        {[source |-> src, location |-> l, agg_level |-> a] :
            l \in RawCodes, a \in AggLevels(src)} :
        src \in {"ilinet", "flusurvnet", "nhsn", "nssp"}}

NamesInit ==
    /\ IdleAux
    /\ IdleRun
    /\ IdleSea
    /\ IdleTr
    /\ IdleLd
    /\ IdleTs
    /\ IdleBg
    /\ ns \in {[a |-> x, b |-> y, key_a |-> "", key_b |-> ""] :
                  x \in RawTriples, y \in RawTriples}
    /\ ns.a # ns.b

HarmonizeA ==
    /\ ns.key_a = ""
    /\ ns' = [ns EXCEPT !.key_a = HarmonizedKey(ns.a)]
    /\ UNCHANGED <<runvars, sea, tr, ld, ts, bg, aux>>

HarmonizeB ==
    /\ ns.key_b = ""
    /\ ns' = [ns EXCEPT !.key_b = HarmonizedKey(ns.b)]
    /\ UNCHANGED <<runvars, sea, tr, ld, ts, bg, aux>>

NamesNext == HarmonizeA \/ HarmonizeB

SpecNames == NamesInit /\ [][NamesNext]_vars

\* C9: two distinct raw (source, location code, aggregation level) triples never
\* get the same harmonized location key.
C9_KeysCollisionFree ==
    (ns.key_a # "" /\ ns.key_b # "") => ns.key_a # ns.key_b

\* the part of C9 that holds: the NSSP key tells a state "11" from an HSA "11"
C9_NsspStateHsaDiffer ==
    (/\ ns.key_a # "" /\ ns.key_b # ""
     /\ ns.a.source = "nssp" /\ ns.b.source = "nssp") => ns.key_a # ns.key_b

(***************************************************************************)
(* SpecTransform: apply_scale_center_transform on a small panel, then      *)
(* get_transform_factors and inverse_scale_center_transform on its output. *)
(***************************************************************************)
MaxTrRows == 3
\* incidences x with x + 0.01 in {0.01, 1/16, 1, 16}
IncValues == {Zero, Rat(21, 400), Rat(99, 100), Rat(1599, 100)}
\* the fourth root is modelled on the values where it is rational
IncValuesFor(power_transform) ==
    {x \in IncValues : power_transform = "4rt" => HasRoot4(RAdd(x, Eps))}
TrSeasonWeeks == {7, 12}
TrRows(power_transform) ==
    {[source |-> "mchub", location |-> l, season_week |-> w, inc |-> x] :
        l \in HubSlugs, w \in TrSeasonWeeks, x \in IncValuesFor(power_transform)}
SeqsUpTo(S, n) == UNION {[1..k -> S] : k \in 1..n}

TransformInit ==
    /\ IdleAux
    /\ IdleRun
    /\ IdleSea
    /\ IdleNs
    /\ IdleLd
    /\ IdleTs
    /\ IdleBg
    /\ \E pt \in {"4rt", "None"} :
         tr \in {[pc |-> "raw", power_transform |-> pt, df |-> d,
                  out |-> <<>>, factors |-> <<>>, inv |-> <<>>] :
                    d \in SeqsUpTo(TrRows(pt), MaxTrRows)}

Forward ==
    /\ tr.pc = "raw"
    /\ tr' = [tr EXCEPT !.pc = "transformed",
                        !.out = apply_scale_center_transform(tr.df, tr.power_transform)]
    /\ UNCHANGED <<runvars, sea, ns, ld, ts, bg, aux>>

GetFactors ==
    /\ tr.pc = "transformed"
    /\ tr' = [tr EXCEPT !.pc = "factors", !.factors = get_transform_factors(tr.out)]
    /\ UNCHANGED <<runvars, sea, ns, ld, ts, bg, aux>>

Inverse ==
    /\ tr.pc = "factors"
    /\ tr' = [tr EXCEPT
                !.pc = "inverted",
                !.inv = inverse_scale_center_transform(
                            [i \in DOMAIN tr.out |->
                                [location |-> tr.out[i].location,
                                 inc_trans_cs |-> tr.out[i].inc_trans_cs]],
                            tr.factors, tr.power_transform)]
    /\ UNCHANGED <<runvars, sea, ns, ld, ts, bg, aux>>

TransformNext == Forward \/ GetFactors \/ Inverse

SpecTransform == TransformInit /\ [][TransformNext]_vars

\* C7: the inverse of the forward transform returns every incidence x >= 0, in
\* both power-transform modes.
C7_RoundTrip ==
    tr.pc = "inverted" =>
        /\ Len(tr.inv) = Len(tr.df)
        /\ \A i \in DOMAIN tr.df : tr.inv[i].inc = tr.df[i].inc

\* the round trip on the groups that have a row in season weeks 10..45
RoundTripWhereFactorsDefined ==
    tr.pc = "inverted" =>
        /\ Len(tr.inv) = Len(tr.df)
        /\ \A i \in DOMAIN tr.df :
              (\E j \in DOMAIN tr.df : /\ SameGroup(tr.df[i], tr.df[j])
                                       /\ InFactorWindow(tr.df[j].season_week))
              => tr.inv[i].inc = tr.df[i].inc

(***************************************************************************)
(* SpecLoad: one call of load_all_data, for every combination of toggles,  *)
(* every exclusion list and every loader that may fail.                    *)
(***************************************************************************)
MaxBroken == 1
AllSources == {"mchub"} \cup SupSources
BrokenSets == {b \in SUBSET AllSources : Cardinality(b) <= MaxBroken}
DropSeasonsChoices == {{}, DefaultDropSeasons, {"2022/23"}}
LoadTables ==
    {<<>>,
     RawBlock("boston", <<WkDropped, WkA1, WkB1>>),
     RawBlock("boston", <<WkDropped, WkA1, WkB1>>) \o RawBlock("nyc", <<WkDropped, WkB1>>)}
LoadConfigs ==
    {[use_ilinet |-> "ilinet" \in on, use_flusurvnet |-> "flusurvnet" \in on,
      use_nhsn |-> "nhsn" \in on, use_nssp_extra |-> "nssp" \in on,
      drop_seasons |-> ds] : on \in SUBSET SupSources, ds \in DropSeasonsChoices}

LoadInit ==
    /\ IdleAux
    /\ IdleRun
    /\ IdleSea
    /\ IdleNs
    /\ IdleTr
    /\ IdleTs
    /\ IdleBg
    /\ ld \in {[pc |-> "call", model_config |-> c, broken |-> b, mchub |-> t,
                panel |-> <<>>] : c \in LoadConfigs, b \in BrokenSets, t \in LoadTables}

\* load_all_data returns the panel
LoadReturns ==
    /\ ld.pc = "call"
    /\ ~load_all_data_raises(ld.model_config, ld.broken)
    /\ ld' = [ld EXCEPT !.pc = "returned",
                        !.panel = load_all_data(ld.model_config, ld.mchub, SupFrames)]
    /\ UNCHANGED <<runvars, sea, ns, tr, ts, bg, aux>>

\* a loader raises and the exception leaves load_all_data
LoadRaises ==
    /\ ld.pc = "call"
    /\ load_all_data_raises(ld.model_config, ld.broken)
    /\ ld' = [ld EXCEPT !.pc = "raised"]
    /\ UNCHANGED <<runvars, sea, ns, tr, ts, bg, aux>>

LoadNext == LoadReturns \/ LoadRaises

SpecLoad == LoadInit /\ [][LoadNext]_vars

\* the frame the loader of a source returns
FrameOf(source) ==
    CASE source = "mchub" ->
            LET m == load_mchub_data(ld.mchub)
            IN  [i \in DOMAIN m |-> DropColumnTarget(m[i])]
      [] source = "ilinet"     -> load_supplementary_ilinet(SupFrames.ilinet)
      [] source = "flusurvnet" -> load_supplementary_flusurvnet(SupFrames.flusurvnet)
      [] source = "nhsn"       -> load_supplementary_nhsn(SupFrames.nhsn)
      [] source = "nssp"       -> load_supplementary_nssp(SupFrames.nssp)

ToggledOn == CalledSources(ld.model_config)

\* C14: load_all_data raises when the loader of an enabled source raises; a
\* panel it returns holds the frame of the primary source and of every enabled
\* supplementary source (less the excluded seasons) and of no disabled one.
C14_NoSilentlyMissingSource ==
    /\ ld.pc = "raised" => ld.broken \cap ToggledOn # {}
    /\ ld.pc = "returned" =>
        /\ ld.broken \cap ToggledOn = {}
        /\ \A i \in DOMAIN ld.panel : ld.panel[i].source \in ToggledOn
        /\ \A source \in ToggledOn :
              SelectSeq(ld.panel, LAMBDA r : r.source = source)
                = SelectSeq(FrameOf(source),
                            LAMBDA r : r.season \notin ld.model_config.drop_seasons)

C14_Witness ==
    /\ ld.pc = "raised"
    /\ ld.model_config.use_nhsn
    /\ ld.broken = {"nhsn"}

\* C16: the panel load_all_data returns has no row of a season of
\* model_config.drop_seasons, and has every row of the concatenated frames
\* whose season is not in that list.
C16_DropSeasons ==
    ld.pc = "returned" =>
        /\ \A i \in DOMAIN ld.panel :
              ld.panel[i].season \notin ld.model_config.drop_seasons
        /\ \A source \in ToggledOn : \A r \in Range(FrameOf(source)) :
              r.season \notin ld.model_config.drop_seasons
              => Cardinality({i \in DOMAIN ld.panel : ld.panel[i] = r})
                   = Cardinality({i \in DOMAIN FrameOf(source) : FrameOf(source)[i] = r})

\* rows of the primary source and of a supplementary source were dropped and
\* others of both were kept
C16_Witness ==
    /\ ld.pc = "returned"
    /\ ld.model_config.drop_seasons = {"2022/23"}
    /\ \E source \in {"mchub"}, sup \in ToggledOn \ {"mchub"} :
        /\ \E r \in Range(FrameOf(source)) : r.season = "2022/23"
        /\ \E r \in Range(FrameOf(sup)) : r.season = "2022/23"
        /\ \E i, j \in DOMAIN ld.panel :
              ld.panel[i].source = source /\ ld.panel[j].source = sup

(***************************************************************************)
(* SpecTest: the test set and the forecast records of a run, also under a  *)
(* crosswalk that has a slug equal to the key of a supplementary location. *)
(***************************************************************************)
TestCrosswalks == {get_mchub_locations, <<"boston", "nhsn_US">>}
\* the reference date of Configs, and one that has later weeks in every source
TestRefDates == {WkB1, WkB3}
TestConfigs ==
    {[c EXCEPT !.ref_date = d] :
        c \in {x \in Configs : SupportedPowerTransform(x.power_transform)},
        d \in TestRefDates}
TestTables == {RawBlock("boston", BostonWeeks) \o RawBlock("nyc", c) : c \in NycCoverages}

TestInit ==
    /\ IdleAux
    /\ IdleRun
    /\ IdleSea
    /\ IdleNs
    /\ IdleTr
    /\ IdleLd
    /\ IdleBg
    /\ ts \in {[pc |-> "load", mchub_locs |-> l, cfg |-> c, mchub |-> t, df |-> <<>>,
                df_test |-> <<>>, df_train |-> <<>>, preds |-> <<>>] :
                  l \in TestCrosswalks, c \in TestConfigs, t \in TestTables}

\* run, lines 48-53
LoadPanel ==
    /\ ts.pc = "load"
    /\ ts' = [ts EXCEPT !.pc = "prepare",
                        !.df = load_all_data(ts.cfg, ts.mchub, SupFrames)]
    /\ UNCHANGED <<runvars, sea, ns, tr, ld, bg, aux>>

\* run, lines 55-74
PreparePanel ==
    /\ ts.pc = "prepare"
    /\ ts' = [ts EXCEPT !.pc = "features",
                        !.df = PrepareFrame(ts.df, ts.cfg.ref_date, ts.cfg.power_transform)]
    /\ UNCHANGED <<runvars, sea, ns, tr, ld, bg, aux>>

\* run, lines 76-86
FeaturesOfPanel ==
    /\ ts.pc = "features"
    /\ ts' = [ts EXCEPT
                !.pc = "select",
                !.df = InSeasonFilter(create_features_and_targets(ts.df, ts.cfg.max_horizon))]
    /\ UNCHANGED <<runvars, sea, ns, tr, ld, bg, aux>>

\* run, lines 88-96
SelectTestSet ==
    /\ ts.pc = "select"
    /\ ts' = [ts EXCEPT !.pc = "predict",
                        !.df_test = TestSetOf(ts.df, ts.mchub_locs),
                        !.df_train = TrainSet(ts.df)]
    /\ UNCHANGED <<runvars, sea, ns, tr, ld, bg, aux>>

\* run, lines 98-111
PredictTestSet ==
    /\ ts.pc = "predict"
    /\ IF PredictRaises(ts.df_train, ts.df_test, ts.cfg.fit_locations_separately)
       THEN ts' = [ts EXCEPT !.pc = "raised"]
       ELSE \E pat \in PredictionPatterns :
              ts' = [ts EXCEPT
                        !.pc = "predicted",
                        !.preds = Predict(ts.df_train, ts.df_test,
                                          ts.cfg.fit_locations_separately, pat,
                                          ts.cfg.power_transform)]
    /\ UNCHANGED <<runvars, sea, ns, tr, ld, bg, aux>>

TestNext ==
    LoadPanel \/ PreparePanel \/ FeaturesOfPanel \/ SelectTestSet \/ PredictTestSet

SpecTest == TestInit /\ [][TestNext]_vars

DerivesFrom(p, t) ==
    /\ t.source = "mchub"
    /\ p.location = t.location
    /\ p.wk_end_date = t.wk_end_date
    /\ p.horizon = t.horizon

\* C15: every forecast record derives from a test row of the primary source;
\* a row of a supplementary source yields no record, even when its location
\* key is a slug of the crosswalk.
C15_OnlyPrimaryForecast ==
    ts.pc = "predicted" =>
        /\ \A i \in DOMAIN ts.preds :
              /\ ts.preds[i].source = "mchub"
              /\ \E j \in DOMAIN ts.df_test : DerivesFrom(ts.preds[i], ts.df_test[j])
        /\ Len(ts.preds)
             = NumQ * Cardinality({j \in DOMAIN ts.df_test : ts.df_test[j].source = "mchub"})

\* records were emitted from a test set that holds rows of a supplementary
\* source
C15_Witness ==
    /\ ts.pc = "predicted"
    /\ ts.preds # <<>>
    /\ \E j \in DOMAIN ts.df_test :
          ts.df_test[j].source = "nhsn" /\ ts.df_test[j].location = "nhsn_US"

\* what the sources would return if they had nothing later than ref_date
HubUntilRefDate == SelectSeq(ts.mchub, LAMBDA r : r.target_end_date <= ts.cfg.ref_date)
SupUntilRefDate ==
    [source \in DOMAIN SupFrames |->
        SelectSeq(SupFrames[source], LAMBDA r : r.wk_end_date <= ts.cfg.ref_date)]
\* the frame of features and targets of a run on those
FeaturesUntilRefDate ==
    InSeasonFilter(create_features_and_targets(
        PrepareFrame(load_all_data(ts.cfg, HubUntilRefDate, SupUntilRefDate),
                     ts.cfg.ref_date, ts.cfg.power_transform),
        ts.cfg.max_horizon))

\* C27: no row of the frame has a week later than ref_date once the frame is
\* prepared, and the frame with its factors and targets, the test rows and
\* the training rows are those of a run on sources that hold nothing later
\* than ref_date: the later observations of the primary and of the
\* supplementary sources change nothing.
C27_NothingAfterRefDate ==
    /\ ts.pc \in {"features", "select", "predict", "predicted", "raised"} =>
          \A r \in Range(ts.df) \cup Range(ts.df_test) \cup Range(ts.df_train) :
              r.wk_end_date <= ts.cfg.ref_date
    /\ ts.pc = "predict" =>
          /\ ts.df = FeaturesUntilRefDate
          /\ ts.df_test = TestSetOf(FeaturesUntilRefDate, ts.mchub_locs)
          /\ ts.df_train = TrainSet(FeaturesUntilRefDate)

\* the hub and a supplementary source that is switched on have weeks later
\* than ref_date, and the run has test and training rows
C27_Witness ==
    /\ ts.pc = "predict"
    /\ ts.df_test # <<>>
    /\ ts.df_train # <<>>
    /\ \E i \in DOMAIN ts.mchub : ts.mchub[i].target_end_date > ts.cfg.ref_date
    /\ ts.cfg.use_nhsn
    /\ \E i \in DOMAIN SupFrames.nhsn : SupFrames.nhsn[i].wk_end_date > ts.cfg.ref_date
    /\ \E i \in DOMAIN ts.df_train : ts.df_train[i].source = "nhsn"

(***************************************************************************)
(* SpecBag: calls of _get_test_quantile_predictions, one after the other   *)
(* with the same arguments, each step by step: a bag is sampled, then one  *)
(* regressor per quantile level is fitted and predicts, then the median    *)
(* over the bags is taken.                                                 *)
(***************************************************************************)
MaxBags == 3
MaxCalls == 2
BagRefDates == {WkB2, WkB3}
BagTrainRows(seasons) ==
    [i \in DOMAIN seasons |-> [season |-> seasons[i], delta_target |-> Rat(i, 10)]]
BagTrainTables ==
    {BagTrainRows(<<"2022/23", "2022/23">>),
     BagTrainRows(<<"2022/23", "2023/24", "2022/23">>),
     BagTrainRows(<<"2019/20", "2022/23", "2023/24", "2022/23">>),
     BagTrainRows(<<"2018/19", "2019/20", "2022/23", "2023/24", "2024/25">>)}
\* the test rows, each by a feature value
BagTestSets == {<<0>>, <<0, 1>>}
\* what np.empty may hold before a cell is written
Uninitialized == {Rat(-7, 1), Rat(7, 1)}
\* the fits (bag, quantile level) at which the regressor library fails
BagFitFailures == {{}, {<<2, 1>>}, {<<1, NumQ>>}}

BagInit ==
    /\ IdleAux
    /\ IdleRun
    /\ IdleSea
    /\ IdleNs
    /\ IdleTr
    /\ IdleLd
    /\ IdleTs
    /\ bg \in {[pc |-> "call", ref_date |-> d, num_bags |-> n, num_q |-> NumQ,
                df_train |-> t,
                x_test |-> x, lgb_fails |-> f, clock |-> 0, rng |-> default_rng(0), lgb_seeds |-> <<>>,
                buffer |-> <<>>, b |-> 0, q_ind |-> 0, bag_seasons |-> <<>>,
                bags |-> <<>>, out |-> <<>>, runs |-> <<>>] :
                  d \in BagRefDates, n \in 1..MaxBags, t \in BagTrainTables,
                  x \in BagTestSets, f \in BagFitFailures}

\* lines 222-239: the generator, the seeds of the regressors, the buffer
EnterBagging ==
    /\ bg.pc = "call"
    /\ \E garbage \in Uninitialized :
        LET rng   == default_rng(rng_seed(bg.ref_date, bg.clock))
            seeds == RngIntegers(rng, 100000000, bg.num_bags * bg.num_q)
        IN  bg' = [bg EXCEPT
                    !.pc = "bag",
                    !.rng = seeds.rng,
                    !.lgb_seeds = [b \in 1..bg.num_bags |->
                                     [k \in 1..bg.num_q |-> seeds.values[(b - 1) * bg.num_q + k]]],
                    !.buffer = [i \in DOMAIN bg.x_test |->
                                  [b \in 1..bg.num_bags |->
                                     [k \in 1..bg.num_q |->
                                        [written |-> FALSE, value |-> garbage,
                                         fitted |-> {}]]]],
                    !.b = 0,
                    !.q_ind = 0,
                    !.bag_seasons = <<>>,
                    !.bags = <<>>,
                    !.out = <<>>]
    /\ UNCHANGED <<runvars, sea, ns, tr, ld, ts, aux>>

\* lines 241-248: the seasons of the next bag
SampleBag ==
    /\ bg.pc = "bag"
    /\ ~BagLoopDone(bg.b, bg.num_bags)
    /\ LET c == rng_choice(bg.rng, TrainSeasons(bg.df_train), BagSize(bg.df_train))
       IN  bg' = [bg EXCEPT !.pc = "fit",
                            !.rng = c.rng,
                            !.bag_seasons = c.values,
                            !.bags = Append(@, c.values),
                            !.q_ind = 0]
    /\ UNCHANGED <<runvars, sea, ns, tr, ld, ts, aux>>

\* lines 250-264: the regressor of the next quantile level of the bag is
\* fitted on the rows of the bag and predicts the test rows; LightGBM raises
\* on a frame without rows, and where the library fails
FitAndPredict ==
    /\ bg.pc = "fit"
    /\ LET inds == BagObsInds(bg.df_train, bg.bag_seasons)
           rows == Pick(bg.df_train, inds)
           b    == bg.b + 1
           k    == bg.q_ind + 1
       IN  IF inds = {} \/ bg.x_test = <<>> \/ <<b, k>> \in bg.lgb_fails
           THEN bg' = FitErrorHandler(bg)
           ELSE bg' = [bg EXCEPT
                        !.buffer = [i \in DOMAIN bg.x_test |->
                                      [bg.buffer[i] EXCEPT ![b][k] =
                                          [written |-> TRUE,
                                           value |-> RegressorPredict(rows, k,
                                                        bg.lgb_seeds[b][k], bg.x_test[i]),
                                           fitted |-> inds]]],
                        !.q_ind = IF k = bg.num_q THEN 0 ELSE k,
                        !.b = IF k = bg.num_q THEN b ELSE bg.b,
                        !.pc = IF k = bg.num_q THEN "bag" ELSE "fit"]
    /\ UNCHANGED <<runvars, sea, ns, tr, ld, ts, aux>>

\* lines 266-272: the median over the bags
Aggregate ==
    /\ bg.pc = "bag"
    /\ BagLoopDone(bg.b, bg.num_bags)
    /\ LET test_pred_qs ==
              [i \in DOMAIN bg.x_test |->
                 [k \in 1..bg.num_q |->
                    NpMedian([b \in 1..bg.num_bags |-> bg.buffer[i][b][k].value])]]
       IN  bg' = [bg EXCEPT !.pc = "returned",
                            !.out = test_pred_qs,
                            !.runs = Append(@, [raised |-> FALSE, lgb_seeds |-> bg.lgb_seeds,
                                                bags |-> bg.bags, out |-> test_pred_qs])]
    /\ UNCHANGED <<runvars, sea, ns, tr, ld, ts, aux>>

\* the function is called again, later, with the same arguments
CallAgain ==
    /\ bg.pc \in {"returned", "raised"}
    /\ bg.clock + 1 < MaxCalls
    /\ bg' = [bg EXCEPT !.pc = "call", !.clock = @ + 1]
    /\ UNCHANGED <<runvars, sea, ns, tr, ld, ts, aux>>

BagNext == EnterBagging \/ SampleBag \/ FitAndPredict \/ Aggregate \/ CallAgain

SpecBag == BagInit /\ [][BagNext]_vars

\* C17: two executions with the same reference date, rows and configuration
\* draw the same seeds of the regressors and the same seasons for every bag,
\* and return the same medians (or fail alike).
C17_Deterministic ==
    \A m, n \in DOMAIN bg.runs : bg.runs[m] = bg.runs[n]

C17_Witness ==
    /\ Len(bg.runs) = 2
    /\ ~bg.runs[2].raised
    /\ bg.num_bags >= 2
    /\ bg.runs[2].out # <<>>

BagCells == {<<i, b, k>> : i \in DOMAIN bg.buffer, b \in 1..bg.num_bags, k \in 1..bg.num_q}
Cell(c) == bg.buffer[c[1]][c[2]][c[3]]

\* C18: a bag holds floor(0.7 x number of distinct training seasons) pairwise
\* distinct seasons, all of them seasons of the training rows, and a regressor
\* of the bag is fitted on exactly the training rows of those seasons.
C18_BagOfWholeSeasons ==
    LET train_seasons == {bg.df_train[i].season : i \in DOMAIN bg.df_train}
    IN  /\ \A b \in DOMAIN bg.bags :
              /\ Len(bg.bags[b]) = (7 * Cardinality(train_seasons)) \div 10
              /\ \A m, n \in DOMAIN bg.bags[b] : m # n => bg.bags[b][m] # bg.bags[b][n]
              /\ Range(bg.bags[b]) \subseteq train_seasons
        /\ bg.buffer # <<>> =>
              \A c \in BagCells :
                  Cell(c).written =>
                      Cell(c).fitted = {i \in DOMAIN bg.df_train :
                                           bg.df_train[i].season \in Range(bg.bags[c[2]])}

\* a regressor of the second bag was fitted on three of five seasons
C18_Witness ==
    /\ bg.buffer # <<>>
    /\ bg.num_bags >= 2
    /\ Cell(<<1, 2, 1>>).written
    /\ Len(bg.bags[2]) = 3
    /\ Cell(<<1, 2, 1>>).fitted # DOMAIN bg.df_train

BagValues(i, k) == [b \in 1..bg.num_bags |-> bg.buffer[i][b][k].value]

\* C19: the output for a test row and a quantile level is the median over the
\* bags of the predictions for that row and level: at least half of them are
\* at most it, at least half are at least it; with one bag it is the
\* prediction of the one regressor.
C19_MedianOfBags ==
    bg.pc = "returned" =>
        \A i \in DOMAIN bg.out : \A k \in 1..bg.num_q :
            LET vals == BagValues(i, k)
                m    == bg.out[i][k]
            IN  /\ 2 * Cardinality({b \in DOMAIN vals : RLe(vals[b], m)}) >= Len(vals)
                /\ 2 * Cardinality({b \in DOMAIN vals : RLe(m, vals[b])}) >= Len(vals)
                /\ Len(vals) % 2 = 1 => m \in Range(vals)
                /\ bg.num_bags = 1 => m = vals[1]

\* three bags whose predictions for a row and level are not all the same
C19_Witness ==
    /\ bg.pc = "returned"
    /\ bg.num_bags = 3
    /\ \E i \in DOMAIN bg.out : \E k \in 1..bg.num_q :
          /\ Cardinality(Range(BagValues(i, k))) >= 2
          /\ bg.out[i][k] # RDiv(RSum(BagValues(i, k)), Rat(3, 1))

\* C20: the median is taken only when every regressor of every bag and level
\* has been fitted and has predicted: no cell of the buffer that the median
\* reads is unwritten.
C20_MedianAfterAllFits ==
    [][(bg.pc = "bag" /\ bg'.pc = "returned")
         => \A c \in BagCells : Cell(c).written]_vars

C20_Witness ==
    /\ bg.pc = "returned"
    /\ bg.num_bags = 3
    /\ Len(bg.x_test) = 2
    /\ \A c \in BagCells : Cell(c).written

\* C29: when the training rows have at least one season, every bag holds at
\* least one season and the regressor of a bag is never fitted on zero rows.
C29_BagNeverEmpty ==
    bg.pc \in {"bag", "fit", "raised", "returned"} /\ bg.df_train # <<>> =>
        /\ \A b \in DOMAIN bg.bags : Len(bg.bags[b]) >= 1
        /\ bg.pc = "fit" => BagObsInds(bg.df_train, bg.bag_seasons) # {}

\* what the code keeps: a bag is empty exactly when the training rows have a
\* single season, and then the first fit raises
BagEmptyOnlyForOneSeason ==
    bg.pc \in {"bag", "fit", "raised", "returned"} /\ bg.df_train # <<>> =>
        \A b \in DOMAIN bg.bags :
            Len(bg.bags[b]) = 0 <=> Len(TrainSeasons(bg.df_train)) = 1

(***************************************************************************)
(* SpecInverse: one forecast in the scaled and centered scale is brought   *)
(* back to the original scale twice: by the lines of _train_and_predict    *)
(* and by transforms.inverse_scale_center_transform.                       *)
(***************************************************************************)
ScaledValues ==
    {Rat(-3, 1), Rat(-1, 1), Rat(-1, 2), Zero, Rat(1, 2), Rat(1, 1), Rat(2, 1)}
\* scale + 0.01 is 1 or 2
ScaleFactors == {Rat(99, 100), Rat(199, 100)}
CenterFactors == {Rat(-1, 1), Zero, Rat(1, 1), NaN}

InverseInit ==
    /\ IdleRun
    /\ IdleSea
    /\ IdleNs
    /\ IdleTr
    /\ IdleLd
    /\ IdleTs
    /\ IdleBg
    /\ IdleFm
    /\ IdleCm
    /\ IdleSp
    /\ iv \in {[power_transform |-> pt, inc_trans_cs_target_hat |-> v,
                 inc_trans_scale_factor |-> sf, inc_trans_center_factor |-> cf,
                 inline |-> <<>>, function |-> <<>>] :
                   pt \in {"4rt", "None"}, v \in ScaledValues,
                   sf \in ScaleFactors, cf \in CenterFactors}

\* _train_and_predict, lines 183-198
InvertInline ==
    /\ iv.inline = <<>>
    /\ iv' = [iv EXCEPT !.inline =
                <<InverseInline([inc_trans_cs |-> iv.inc_trans_cs_target_hat,
                                 delta_hat |-> Zero,
                                 inc_trans_scale_factor |-> iv.inc_trans_scale_factor,
                                 inc_trans_center_factor |-> iv.inc_trans_center_factor],
                                iv.power_transform).value>>]
    /\ UNCHANGED <<runvars, sea, ns, tr, ld, ts, bg, fm, cm, sp>>

\* transforms.inverse_scale_center_transform on the same forecast and factors
InvertByFunction ==
    /\ iv.function = <<>>
    /\ iv' = [iv EXCEPT !.function =
                <<inverse_scale_center_transform(
                    <<[location |-> "boston", inc_trans_cs |-> iv.inc_trans_cs_target_hat]>>,
                    <<[location |-> "boston",
                       inc_trans_scale_factor |-> iv.inc_trans_scale_factor,
                       inc_trans_center_factor |-> iv.inc_trans_center_factor]>>,
                    iv.power_transform)[1].inc>>]
    /\ UNCHANGED <<runvars, sea, ns, tr, ld, ts, bg, fm, cm, sp>>

InverseNext == InvertInline \/ InvertByFunction

SpecInverse == InverseInit /\ [][InverseNext]_vars

\* C30: the inverse in _train_and_predict and inverse_scale_center_transform
\* return the same value in the original scale, for every forecast, factor
\* pair and power transform.
C30_InversesAgree ==
    (iv.inline # <<>> /\ iv.function # <<>>) => iv.inline = iv.function

\* what the code keeps: the two agree without a power transform, and with the
\* fourth root when forecast plus center factor is not negative
InversesAgreeFromZero ==
    (/\ iv.inline # <<>>
     /\ iv.function # <<>>
     /\ \/ iv.power_transform = "None"
        \/ RLe(Zero, RAdd(iv.inc_trans_cs_target_hat, iv.inc_trans_center_factor))
        \/ IsNaN(iv.inc_trans_center_factor))
        => iv.inline = iv.function

(***************************************************************************)
(* SpecFormat: _format_as_mchub_output on one prediction row, for week-     *)
(* ending dates, requested horizons and reference dates of any weekday;    *)
(* the row has passed the as-of filter of run.                             *)
(***************************************************************************)
DefaultMaxHorizon == 4
MaxRefOffset == 14
FormatWeeks == {WkB1, WkB2}
FormatRows ==
    {[location |-> l, wk_end_date |-> w, horizon |-> h, quantile |-> q_labels[5],
      value |-> Obs] :
        l \in HubSlugs, w \in FormatWeeks, h \in 1..DefaultMaxHorizon}

FormatInit ==
    /\ IdleRun
    /\ IdleSea
    /\ IdleNs
    /\ IdleTr
    /\ IdleLd
    /\ IdleTs
    /\ IdleBg
    /\ IdleCm
    /\ IdleSp
    /\ IdleIv
    /\ fm \in {[pc |-> "format", row |-> r, ref_date |-> d, out |-> <<>>] :
                  r \in FormatRows, d \in WkB1..(WkB2 + MaxRefOffset)}
    /\ fm.row.wk_end_date <= fm.ref_date

\* run, line 114
FormatRecord ==
    /\ fm.pc = "format"
    /\ fm' = [fm EXCEPT !.pc = "formatted",
                        !.out = format_as_mchub_output(<<fm.row>>, fm.ref_date)]
    /\ UNCHANGED <<runvars, sea, ns, tr, ld, ts, bg, cm, sp, iv>>

FormatNext == FormatRecord

SpecFormat == FormatInit /\ [][FormatNext]_vars

HorizonTruncated ==
    fm.pc = "formatted" =>
        \A i \in DOMAIN fm.out :
            LET days == fm.out[i].target_end_date - fm.out[i].reference_date
            IN  /\ fm.out[i].target_end_date = fm.row.wk_end_date + 7 * fm.row.horizon
                /\ Abs(days - 7 * fm.out[i].horizon) < 7
                /\ days % 7 = 0 => fm.out[i].reference_date + 7 * fm.out[i].horizon
                                      = fm.out[i].target_end_date

(***************************************************************************)
(* SpecScenario: one run, end to end with the bagging step by step, on a    *)
(* panel of one location with the three complete seasons 2022/23, 2023/24  *)
(* and 2024/25 of weekly data, max_horizon = 2, five quantile levels and   *)
(* num_bags = 4.                                                           *)
(***************************************************************************)
ScenarioWeeks == [i \in 1..(3 * 52) |-> Ordinal(2022, 10, 8) + 7 * (i - 1)]
\* two series: a peak every fourth, or every fifth, week
ScenarioShapes == {4, 5}
ScenarioTable(shape) ==
    [i \in DOMAIN ScenarioWeeks |->
        [location |-> "boston", target_end_date |-> ScenarioWeeks[i],
         observation |-> IF i % shape = 0 THEN Rat(1599, 100) ELSE Obs,
         target |-> HubTarget("boston")]]
ScenarioQLabels == <<q_labels[1], q_labels[4], q_labels[5], q_labels[6], q_labels[9]>>
\* a reference date within the third season, and the last week of the panel
ScenarioRefDates == {Ordinal(2025, 2, 1), Ordinal(2025, 9, 27)}
ScenarioConfigs ==
    {[power_transform |-> pt, fit_locations_separately |-> FALSE,
      use_ilinet |-> FALSE, use_flusurvnet |-> FALSE, use_nhsn |-> FALSE,
      use_nssp_extra |-> FALSE, drop_seasons |-> DefaultDropSeasons,
      ref_date |-> d, max_horizon |-> 2, num_bags |-> 4, q_labels |-> ScenarioQLabels] :
        pt \in {"4rt", "None"}, d \in ScenarioRefDates}

ScenarioInit ==
    /\ IdleAux
    /\ IdleSea
    /\ IdleNs
    /\ IdleTr
    /\ IdleLd
    /\ IdleTs
    /\ IdleBg
    /\ cfg \in ScenarioConfigs
    /\ raw \in {[mchub |-> ScenarioTable(shape), sup |-> SupFrames] : shape \in ScenarioShapes}
    /\ pc = "load"
    /\ failed_at = "none"
    /\ df = <<>>
    /\ df_test = <<>>
    /\ df_train = <<>>
    /\ preds_df = <<>>
    /\ out_file = [exists |-> FALSE, rows |-> <<>>]

\* _train_and_predict, lines 151-159: the call of
\* _get_test_quantile_predictions; a test row is given to the regressors by
\* its horizon
CallBagging ==
    /\ pc = "predict"
    /\ ~cfg.fit_locations_separately
    /\ bg.pc = "idle"
    /\ pc' = "bagging"
    /\ bg' = [pc |-> "call", ref_date |-> cfg.ref_date, num_bags |-> cfg.num_bags,
              num_q |-> Len(cfg.q_labels),
              df_train |-> [i \in DOMAIN df_train |->
                              [season |-> df_train[i].season,
                               delta_target |-> df_train[i].delta_target]],
              x_test |-> [i \in DOMAIN df_test |-> df_test[i].horizon],
              lgb_fails |-> {}, clock |-> 0, rng |-> default_rng(0), lgb_seeds |-> <<>>,
              buffer |-> <<>>, b |-> 0, q_ind |-> 0, bag_seasons |-> <<>>,
              bags |-> <<>>, out |-> <<>>, runs |-> <<>>]
    /\ UNCHANGED <<cfg, raw, failed_at, df, df_test, df_train, preds_df, out_file,
                   sea, ns, tr, ld, ts, aux>>

\* _train_and_predict, lines 161-200, on the medians the bagging returned
MeltPredictions ==
    /\ pc = "bagging"
    /\ bg.pc = "returned"
    /\ pc' = "format"
    /\ preds_df' = MeltAndInvert(df_test, cfg.q_labels, bg.out, cfg.power_transform)
    /\ UNCHANGED <<cfg, raw, failed_at, df, df_test, df_train, out_file,
                   sea, ns, tr, ld, ts, bg, aux>>

ScenarioNext ==
    \/ LoadAllData
    \/ Prepare
    \/ BuildFeatures
    \/ CallBagging
    \/ EnterBagging
    \/ SampleBag
    \/ FitAndPredict
    \/ Aggregate
    \/ MeltPredictions
    \/ FormatOutput
    \/ QuantileNoncrossing
    \/ SavePredictions

SpecScenario == ScenarioInit /\ [][ScenarioNext]_vars

\* the weeks of the panel that the run may see, and the latest of a set of weeks
AvailableWeeks == {w \in Range(ScenarioWeeks) : w <= cfg.ref_date}
Latest(weeks) == CHOOSE w \in weeks : \A v \in weeks : v <= w
\* the latest available week of the in-season window
TestWeek ==
    Latest({w \in AvailableWeeks : /\ date_to_season_week(w) >= TrainSeasonWeekLo
                                   /\ date_to_season_week(w) <= TrainSeasonWeekHi})

\* the values of a group of records rise with the quantile level and none is
\* negative
MonotoneNonNegative(recs) ==
    /\ \A i, j \in DOMAIN recs :
          (/\ recs[i].target_end_date = recs[j].target_end_date
           /\ RLt(LevelOf(recs[i].output_type_id), LevelOf(recs[j].output_type_id)))
              => RLe(recs[i].value, recs[j].value)
    /\ \A i \in DOMAIN recs : RLe(Zero, recs[i].value)

ObsAt(w) == raw.mchub[CHOOSE i \in DOMAIN raw.mchub : raw.mchub[i].target_end_date = w].observation
\* the transformed observations of the weeks the run sees whose season week
\* is in lo..hi
WindowValues(lo, hi) ==
    LET rows == SelectSeq(raw.mchub,
                   LAMBDA q : /\ q.target_end_date <= cfg.ref_date
                              /\ date_to_season_week(q.target_end_date) >= lo
                              /\ date_to_season_week(q.target_end_date) <= hi)
    IN  [i \in DOMAIN rows |-> apply_power_transform(rows[i].observation, cfg.power_transform)]
\* week w in the scaled and centered scale of row r
ScaledCentered(r, w) ==
    RSub(RDiv(apply_power_transform(ObsAt(w), cfg.power_transform),
              RAdd(r.inc_trans_scale_factor, Eps)),
         r.inc_trans_center_factor)

\* C25: every training row and every test row has its season week in 5..45;
\* a row of those weeks whose week h weeks on is in the panel the run sees is a
\* training row with the target "value h weeks on minus own value", whatever
\* the season week of the later week; the scale factor is the 0.95 quantile
\* of the weeks 10..45, the center factor the mean of the scaled values of
\* the weeks 10..45.
C25_InSeasonAfterTargets ==
    pc = "predict" =>
        LET scale  == SeriesQuantile95(WindowValues(10, 45))
            scaled == [i \in DOMAIN WindowValues(10, 45) |->
                          RDiv(WindowValues(10, 45)[i], RAdd(scale, Eps))]
            center == SeriesMean(scaled)
        IN  /\ \A r \in Range(df_train) \cup Range(df_test) :
                  /\ r.season_week >= 5
                  /\ r.season_week <= 45
                  /\ r.inc_trans_scale_factor = scale
                  /\ r.inc_trans_center_factor = center
            /\ \A w \in AvailableWeeks : \A h \in 1..cfg.max_horizon :
                  (/\ date_to_season_week(w) >= 5
                   /\ date_to_season_week(w) <= 45
                   /\ w + 7 * h \in AvailableWeeks)
                     => \E i \in DOMAIN df_train :
                           /\ df_train[i].wk_end_date = w
                           /\ df_train[i].horizon = h
                           /\ df_train[i].delta_target
                                 = RSub(ScaledCentered(df_train[i], w + 7 * h),
                                        df_train[i].inc_trans_cs)

\* a training row of season week 45 whose target comes from season week 47,
\* and a training row of a week before the window of the factors
C25_Witness ==
    /\ pc = "predict"
    /\ \E i \in DOMAIN df_train :
          /\ df_train[i].season_week = 45
          /\ df_train[i].horizon = 2
          /\ date_to_season_week(df_train[i].wk_end_date + 14) = 47
          /\ df_train[i].delta_target # Zero
    /\ \E i \in DOMAIN df_train : df_train[i].season_week = 5
    /\ SeriesMean(WindowValues(5, 45)) # SeriesMean(WindowValues(10, 45))

(***************************************************************************)
(* SpecCommit: one call of _get_commit_at_date, on a file with up to        *)
(* MaxCommits commits made around the end of as_of_date.                   *)
(***************************************************************************)
MaxCommits == 2
\* a winter date, a summer date, and the date of the last week of the scenario
AsOfDates == {Ordinal(2025, 1, 18), Ordinal(2025, 7, 19), Ordinal(2025, 9, 27)}
CommitTimes(d) ==
    {Instant(d, 17, 0, 0), Instant(d + 1, 3, 59, 59), Instant(d + 1, 4, 30, 0),
     Instant(d + 1, 4, 59, 59), Instant(d + 1, 5, 30, 0), Instant(d + 2, 17, 0, 0)}

CommitInit ==
    /\ IdleRun
    /\ IdleSea
    /\ IdleNs
    /\ IdleTr
    /\ IdleLd
    /\ IdleTs
    /\ IdleBg
    /\ IdleFm
    /\ IdleSp
    /\ IdleIv
    /\ \E d \in AsOfDates :
          cm \in {[pc |-> "call", as_of_date |-> d, commits |-> c, sha |-> 0] :
                    c \in {x \in SUBSET CommitTimes(d) : Cardinality(x) <= MaxCommits}}

\* lines 59-76: the query returns a commit
CommitFound ==
    /\ cm.pc = "call"
    /\ LatestCommitUntil(cm.commits, until(cm.as_of_date)) # <<>>
    /\ cm' = [cm EXCEPT !.pc = "returned",
                        !.sha = LatestCommitUntil(cm.commits, until(cm.as_of_date))[1]]
    /\ UNCHANGED <<runvars, sea, ns, tr, ld, ts, bg, fm, sp, iv>>

\* lines 74-75: the output of the query is empty, RuntimeError
NoCommitFound ==
    /\ cm.pc = "call"
    /\ LatestCommitUntil(cm.commits, until(cm.as_of_date)) = <<>>
    /\ cm' = [cm EXCEPT !.pc = "raised_empty"]
    /\ UNCHANGED <<runvars, sea, ns, tr, ld, ts, bg, fm, sp, iv>>

\* lines 77-78: the GitHub CLI fails, RuntimeError
GhFails ==
    /\ cm.pc = "call"
    /\ cm' = [cm EXCEPT !.pc = "raised_gh"]
    /\ UNCHANGED <<runvars, sea, ns, tr, ld, ts, bg, fm, sp, iv>>

CommitNext == CommitFound \/ NoCommitFound \/ GhFails

SpecCommit == CommitInit /\ [][CommitNext]_vars

\* US Eastern time: daylight time (UTC-4) from the second Sunday of March to
\* the first Sunday of November, standard time (UTC-5) otherwise
SundayFrom(date) == CHOOSE d \in date..(date + 6) : IsoWeekday(d) = 7
IsEDT(date) ==
    /\ date >= SundayFrom(Ordinal(YearOf(date), 3, 8))
    /\ date < SundayFrom(Ordinal(YearOf(date), 11, 1))
\* the instant of 11:59pm (to the last second) US Eastern time of a date
EndOfDayEastern(date) ==
    Instant(date, 23, 59, 59) + (IF IsEDT(date) THEN 4 ELSE 5) * 3600

\* C26: the commit selected is the most recent commit made at or before
\* 11:59pm US Eastern time of as_of_date, in standard and in daylight time;
\* RuntimeError is raised when there is no such commit.
C26_CommitCutoff ==
    LET before == {c \in cm.commits : c <= EndOfDayEastern(cm.as_of_date)}
    IN  /\ cm.pc = "returned" =>
              /\ cm.sha \in before
              /\ \A c \in before : c <= cm.sha
        /\ cm.pc = "raised_empty" => before = {}

\* what the code keeps: the most recent commit made at or before 04:59:59 UTC
\* of the next day, which is 11:59:59pm of as_of_date in standard time
CommitUntilFixedUtc ==
    LET before == {c \in cm.commits : c <= Instant(cm.as_of_date + 1, 4, 59, 59)}
    IN  /\ cm.pc = "returned" =>
              /\ cm.sha \in before
              /\ \A c \in before : c <= cm.sha
              /\ ~IsEDT(cm.as_of_date) => cm.sha <= EndOfDayEastern(cm.as_of_date)
        /\ cm.pc = "raised_empty" => before = {}

\* the fit that the next step of the call attempts fails
FitFails ==
    /\ bg.pc = "fit"
    /\ \/ BagObsInds(bg.df_train, bg.bag_seasons) = {}
       \/ <<bg.b + 1, bg.q_ind + 1>> \in bg.lgb_fails

\* C21: a fit or predict that fails, in any bag, ends the call with the
\* exception: the buffer is left as it is, no further bag is sampled or
\* fitted after it, and a call returns medians only when each of its num_bags
\* bags has predicted at every quantile level.
C21_FitFailureFatal ==
    [][/\ FitFails => (bg'.pc = "raised" /\ bg'.buffer = bg.buffer /\ bg'.out = <<>>)
       /\ bg.pc = "raised" => (bg'.pc = "call" /\ bg'.runs = bg.runs)
       /\ bg'.pc = "returned" =>
              /\ bg.b = bg.num_bags
              /\ \A c \in BagCells : Cell(c).written
              /\ \A b \in 1..bg.num_bags : \A k \in 1..NumQ : <<b, k>> \notin bg.lgb_fails]_vars

\* the library failed in the second bag, after the first bag had predicted
C21_Witness ==
    /\ bg.pc = "raised"
    /\ bg.b = 1
    /\ bg.num_bags = 3
    /\ <<2, 1>> \in bg.lgb_fails
    /\ Cell(<<1, 1, 1>>).written
    /\ ~Cell(<<1, 2, 1>>).written

(***************************************************************************)
(* Properties of the run.                                                  *)
(***************************************************************************)
\* preds_df holds the output of _quantile_noncrossing
Reconciled == pc \in {"save", "done"}
\* preds_df holds the output of _train_and_predict or a later table
Predicted == pc \in {"format", "noncrossing", "save", "done"}

SameForecastUnit(r1, r2) ==
    /\ r1.location = r2.location
    /\ r1.reference_date = r2.reference_date
    /\ r1.horizon = r2.horizon
    /\ r1.target = r2.target

\* C1: in the table run produces, within every (location, reference_date,
\* horizon, target) group, the value is non-decreasing in the quantile level.
C1_MonotoneQuantiles ==
    Reconciled =>
        \A i, j \in DOMAIN preds_df :
            (/\ SameForecastUnit(preds_df[i], preds_df[j])
             /\ RLt(LevelOf(preds_df[i].output_type_id), LevelOf(preds_df[j].output_type_id)))
            => RLe(preds_df[i].value, preds_df[j].value)

\* the same, on the groups whose values are numbers
MonotoneWhereDefined ==
    Reconciled =>
        \A i, j \in DOMAIN preds_df :
            (/\ SameForecastUnit(preds_df[i], preds_df[j])
             /\ RLt(LevelOf(preds_df[i].output_type_id), LevelOf(preds_df[j].output_type_id))
             /\ ~IsNaN(preds_df[i].value) /\ ~IsNaN(preds_df[j].value))
            => RLe(preds_df[i].value, preds_df[j].value)

\* C2: in the table run produces, every (location, reference_date, horizon,
\* target) group has exactly one record per configured quantile label.
C2_OneRecordPerLabel ==
    Reconciled =>
        \A i \in DOMAIN preds_df : \A k \in DOMAIN q_labels :
            Cardinality({j \in DOMAIN preds_df :
                            /\ SameForecastUnit(preds_df[i], preds_df[j])
                            /\ preds_df[j].output_type_id = q_labels[k]}) = 1

\* C3: when a step of run raises, the output file has not been written; the
\* file exists only once every step has completed.
C3_NoOutputOnFailure ==
    /\ failed_at # "none" => ~out_file.exists
    /\ out_file.exists => (pc = "done" /\ failed_at = "none")

C3_Witness ==
    /\ failed_at = "noncrossing"
    /\ pc = "failed"
    /\ ~out_file.exists

\* C4: a written file has, for every location of the crosswalk and every
\* horizon, every configured quantile label.
C4_CompleteFile ==
    out_file.exists =>
        \A l \in Range(get_mchub_locations) :
            /\ \E i \in DOMAIN out_file.rows : out_file.rows[i].location = l
            /\ \A h \in {out_file.rows[i].horizon : i \in DOMAIN out_file.rows} :
               \A k \in DOMAIN q_labels :
                  \E i \in DOMAIN out_file.rows :
                      /\ out_file.rows[i].location = l
                      /\ out_file.rows[i].horizon = h
                      /\ out_file.rows[i].output_type_id = q_labels[k]

\* C5: every value _train_and_predict emits is >= 0.
C5_ValuesNonNegative ==
    Predicted => \A i \in DOMAIN preds_df : RLe(Zero, preds_df[i].value)

\* the same, on the rows whose transform factors are numbers
NonNegativeWhereDefined ==
    pc = "format" =>
        \A i \in DOMAIN preds_df :
            (~IsNaN(preds_df[i].inc_trans_scale_factor)) => RLe(Zero, preds_df[i].value)

GroupMembers(t, key) == {i \in DOMAIN t : GroupKey(t[i]) = key}

Preserves(before, after) ==
    /\ Len(after) = Len(before)
    /\ {GroupKey(after[i]) : i \in DOMAIN after} = {GroupKey(before[i]) : i \in DOMAIN before}
    /\ \A key \in {GroupKey(before[i]) : i \in DOMAIN before} :
        /\ \A v \in {before[i].value : i \in DOMAIN before}
                 \cup {after[i].value : i \in DOMAIN after} :
              Cardinality({i \in GroupMembers(after, key) : after[i].value = v})
                = Cardinality({i \in GroupMembers(before, key) : before[i].value = v})
        /\ {after[i].output_type_id : i \in GroupMembers(after, key)}
             = {before[i].output_type_id : i \in GroupMembers(before, key)}

\* C6: the _quantile_noncrossing step keeps, within each group, the multiset
\* of values and the set of quantile labels, and keeps the number of rows and
\* the set of groups.
C6_NoncrossingPreserves ==
    [][(pc = "noncrossing" /\ pc' = "save") => Preserves(preds_df, preds_df')]_vars

\* the step has run on a table it had to re-pair
C6_Witness ==
    /\ pc = "save"
    /\ \E pat \in PredictionPatterns :
        LET before == format_as_mchub_output(
                          Predict(df_train, df_test, cfg.fit_locations_separately,
                                  pat, cfg.power_transform), cfg.ref_date)
        IN  /\ preds_df = quantile_noncrossing(before)
            /\ preds_df # before

\* C8: in the panel load_all_data returns, no two rows of the primary source
\* share (location, week-ending date).
C8_PrimaryWeekUnique ==
    pc = "prepare" =>
        \A i, j \in DOMAIN df :
            (/\ i # j
             /\ df[i].source = "mchub" /\ df[j].source = "mchub"
             /\ df[i].location = df[j].location)
            => df[i].wk_end_date # df[j].wk_end_date

\* C12: with an unsupported power-transform name (neither "4rt" nor None) run
\* fails before any data is fetched: load_all_data is never carried out.
C12_ConfigErrorBeforeFetch ==
    [][(pc = "load" /\ ~SupportedPowerTransform(cfg.power_transform))
         => ~LoadAllData]_vars

NaNFactor(r) == IsNaN(r.inc_trans_scale_factor) \/ IsNaN(r.inc_trans_center_factor)

\* C13: a group without a row in season weeks 10..45 is a hard error: the run
\* never goes on to feature construction, training or output with a NaN factor
\* of a group, and never emits a forecast computed from one.
C13_NoNaNFactorProceeds ==
    /\ pc \in {"features", "predict"} => \A i \in DOMAIN df : ~NaNFactor(df[i])
    /\ pc = "format" => \A i \in DOMAIN preds_df : ~NaNFactor(preds_df[i])
    /\ out_file.exists => \A i \in DOMAIN out_file.rows : ~IsNaN(out_file.rows[i].value)

FactorPair(r) == <<r.inc_trans_scale_factor, r.inc_trans_center_factor>>

\* C24: the rows of a (source, location) group all carry one pair of factors,
\* the scaled and centered value of a row is made with the pair it carries,
\* and a forecast is brought back to the original scale with the pair of the
\* rows of its group in the transformed frame.
C24_FactorsReused ==
    /\ pc \in {"features", "predict", "format"} =>
          \A i, j \in DOMAIN df :
              /\ SameGroup(df[i], df[j]) => FactorPair(df[i]) = FactorPair(df[j])
              /\ df[i].inc_trans_cs
                    = RSub(RDiv(df[i].inc_trans, RAdd(df[i].inc_trans_scale_factor, Eps)),
                           df[i].inc_trans_center_factor)
    /\ pc = "format" =>
          \A n \in DOMAIN preds_df : \A i \in DOMAIN df :
              SameGroup(preds_df[n], df[i]) =>
                  /\ FactorPair(preds_df[n]) = FactorPair(df[i])
                  /\ preds_df[n].value =
                        RMax(RSub(RPow(RMax(RMul(RAdd(RAdd(preds_df[n].inc_trans_cs,
                                                          preds_df[n].delta_hat),
                                                     df[i].inc_trans_center_factor),
                                                RAdd(df[i].inc_trans_scale_factor, Eps)),
                                           Zero),
                                      IF cfg.power_transform = "4rt" THEN 4 ELSE 1),
                                 Eps),
                             Zero)

\* a forecast of a group that has rows of two seasons and factors that are
\* numbers
C24_Witness ==
    /\ pc = "format"
    /\ \E n \in DOMAIN preds_df :
          /\ ~NaNFactor(preds_df[n])
          /\ \E i, j \in DOMAIN df :
                /\ SameGroup(preds_df[n], df[i])
                /\ SameGroup(preds_df[n], df[j])
                /\ df[i].season # df[j].season

====
